---- MODULE Spec2Model ----
(***************************************************************************)
(* A model of the scrape pipeline of the Instagram analytics dashboard:    *)
(*   - ScraperQueue (public/electron/queue.cjs): add, drain, runTask,      *)
(*     backoffDelay;                                                       *)
(*   - the IPC handlers that submit work (dist/electron/ipc-handlers.cjs): *)
(*     scrape:enqueue / scrape:bulk (simple tasks with onSuccess/onError)  *)
(*     and scrape:profileAndVideos (composite job with a scrape session);  *)
(*   - the scrape-session statements of the DB class (db.cjs);             *)
(*   - the videos and video_metrics tables with upsertVideo,               *)
(*     insertVideoMetrics and the ingestion transaction of a composite job;*)
(*   - the creators table with addCreator and upsertCreatorMeta;           *)
(*   - the retry timers with their delays, the scraper's browser and the   *)
(*     shutdown of the application (main.cjs), and broadcast;              *)
(*   - ProxyManager.getNext (public/electron/proxy.cjs);                   *)
(*   - the shared InstagramScraper with init, close and its callers: the   *)
(*     fetches of the tasks, system:health and shutdown;                   *)
(*   - the run of the composite job with the payloads it broadcasts.       *)
(*                                                                         *)
(* Node runs every callback to completion, so one action is one macrotask: *)
(* a handler together with the promise continuations that follow it in the *)
(* same tick.  Time is not measured, but for the retry timers of          *)
(* RetrySpec: a pending timer (retry back-off, pacing sleep) and a pending *)
(* fetch may complete in any order, which covers every choice of           *)
(* intervalMs, baseDelayMs and jitterMs.                                   *)
(***************************************************************************)
EXTENDS Integers, Sequences, FiniteSets, TLC

\* ---------------------------------------------------------------- bounds
NumTasks == 2
MaxVideos == 2
\* backoffDelay is tried for attempts 1..MaxAttempt, baseDelayMs in 0..MaxBaseDelay and
\* jitterMs in 0..MaxJitter, with Math.random() one of 0/RandomSteps .. (RandomSteps-1)/RandomSteps
MaxAttempt == 4
MaxBaseDelay == 3
MaxJitter == 3
RandomSteps == 4
\* the session statements are called at most MaxCalls times (clock ticks included),
\* and so is db.upsertVideo
MaxCalls == 3
\* the composite jobs ingest at most MaxSamples metric samples between them
MaxSamples == 3

\* ------------------------------------------------------ program constants
\* constructor defaults: concurrency = 2, maxRetries = 3
DefaultConcurrency == 2
MaxRetries == 3

Tasks == 1..NumTasks
\* the runTask invocations of one task, in the order they start; one more than the
\* retry ceiling allows, so that an invocation too many has a place
RunIds == 1..(MaxRetries + 1)
Kinds == {"simple", "composite"}
\* a row of scraping_sessions; revisited is history: a complete or fail statement has
\* updated the row when its status was already completed or failed
NoSession ==
  [status |-> "none", videos_scraped |-> 0, errors |-> "null", started_at |-> -1,
   completed_at |-> -1, revisited |-> FALSE]
Terminal == {"completed", "failed"}

VARIABLES
  concurrency,   \* this.concurrency
  queue,         \* this.queue: the pending tasks, head first
  active,        \* this.active
  task,          \* per task: kind, attempts, the runTask invocations, retry timer, outcome
  events,        \* per task: the scrape:progress events broadcast so far
  sessions,      \* scraping_sessions rows, by session_id
  arrival,       \* history: the pending tasks in the order they entered the pending set
  admitted,      \* history: the admissions made by the drain() of the last step
  now,           \* CURRENT_TIMESTAMP
  ret,           \* the last call of the session statements: what was called and whether it threw
  baseDelayMs,   \* this.baseDelayMs
  jitterMs,      \* this.jitterMs
  delay,         \* the last result of backoffDelay, with its attempt and random draw
  videos,        \* the rows of table videos, in the order of their id
  video_metrics, \* the rows of table video_metrics, in the order of their id
  last,          \* history: the last ingestion, upsertVideo, creator or broadcast call, with its input
  creators,      \* the rows of table creators, in the order of their id
  timers,        \* per task: the delay of its last retry timer and the time the timer has waited
  browser,       \* this.scraper.browser: "null", "open", or "closing" while browser.close() runs
  shutdown,      \* "no", "requested" once shutdown() has called queue.close(), "exited" after app.exit
  proxy,         \* a ProxyManager: this.proxies, this.index, and history: what getNext returned
  scraper,       \* puppeteer as the scraper left it: launches pending, browsers nobody refers to
  callers,       \* per caller of the scraper: where its init(), its page or its close() stands
  progress       \* per composite job: the payloads of its scrape:progress events, in their order

vars == <<concurrency, queue, active, task, events, sessions, arrival, admitted, now, ret,
          baseDelayMs, jitterMs, delay, videos, video_metrics, last, creators, timers,
          browser, shutdown,
              proxy, scraper, callers, progress>>

\* ------------------------------------------------------------ sequences
RECURSIVE SeqToSet(_)
SeqToSet(s) == IF s = <<>> THEN {} ELSE {Head(s)} \cup SeqToSet(Tail(s))

RECURSIVE Remove(_, _)
Remove(s, x) ==
  IF s = <<>> THEN <<>>
  ELSE IF Head(s) = x THEN Tail(s) ELSE <<Head(s)>> \o Remove(Tail(s), x)

RECURSIVE IndexOf(_, _)
IndexOf(s, x) ==
  IF s = <<>> THEN 0
  ELSE IF Head(s) = x THEN 1
  ELSE LET i == IndexOf(Tail(s), x) IN IF i = 0 THEN 0 ELSE i + 1

\* ----------------------------------------------------------------- tasks
\* item = { priority: 0, attempts: 0, ...task }: scrape:enqueue and scrape:bulk give
\* no priority, scrape:profileAndVideos gives priority 1.
Priority(tk, t) == IF tk[t].kind = "composite" THEN 1 ELSE 0

NotSubmitted ==
  [kind |-> "none", attempts |-> 0, run |-> [k \in RunIds |-> "none"],
   timer |-> FALSE, outcome |-> "new"]

NewTask(kd) ==
  [kind |-> kd, attempts |-> 0, run |-> [k \in RunIds |-> "none"],
   timer |-> FALSE, outcome |-> "live"]

NoEvents == [running |-> 0, success |-> 0, error |-> 0, last |-> "none"]

\* broadcast('scrape:progress', {status}): one more event of that status, now the last
Broadcast(ev, status) == [ev EXCEPT ![status] = @ + 1, !.last = status]

\* the number of runTask invocations of the task so far
Executions(r) == Cardinality({k \in DOMAIN r.run : r.run[k] # "none"})

\* the number of runTask invocations of the task that hold a slot
Holding(r) == Cardinality({k \in DOMAIN r.run : r.run[k] \in {"profile", "videos", "pacing"}})

\* ----------------------------------------------------------------- queue
\* this.queue.sort((a, b) => (b.priority ?? 0) - (a.priority ?? 0)): Array.prototype.sort
\* is stable, so x moves ahead of the lower priorities only.
RECURSIVE InsertByPriority(_, _, _)
InsertByPriority(tk, x, s) ==
  IF s = <<>> THEN <<x>>
  ELSE IF Priority(tk, Head(s)) > Priority(tk, x)
       THEN <<Head(s)>> \o InsertByPriority(tk, x, Tail(s))
       ELSE <<x>> \o s

RECURSIVE SortByPriority(_, _)
SortByPriority(tk, q) ==
  IF q = <<>> THEN <<>>
  ELSE InsertByPriority(tk, Head(q), SortByPriority(tk, Tail(q)))

\* the loop condition of drain() with <= for <
CanAdmitOneMore(a, q) == a <= concurrency /\ Len(q) > 0

\* while (this.active < this.concurrency && this.queue.length > 0)
CanAdmit(a, q) == a < concurrency /\ Len(q) > 0

\* drain(): shift the head and runTask it (this.active++) while a slot is free.  log
\* records, per admission, the task, this.active and the pending set as they were.
RECURSIVE drain(_, _, _, _)
drain(q, a, arr, log) ==
  IF CanAdmit(a, q)
  THEN drain(Tail(q), a + 1, Remove(arr, Head(q)),
             Append(log, [task |-> Head(q), active |-> a, pending |-> q, arrival |-> arr]))
  ELSE [queue |-> q, active |-> a, arrival |-> arr, admitted |-> log]

\* the retry test with <= for <
ShouldRetryOnceMore(a) == a <= MaxRetries

\* if (task.attempts < this.maxRetries) setTimeout(...) else permanently failed
ShouldRetry(a) == a < MaxRetries

\* this.active-- moved before the sleep
SlotsReleasedBeforeSleep(phase) == IF phase = "pacing" THEN 0 ELSE 1

\* this.active-- left out
SlotsNeverReleased(phase) == 0

\* finally { await this.sleep(this.intervalMs); this.active--; ... }: the slots given
\* back when an invocation leaves the phase: none when the attempt ends, one when the
\* pacing sleep is over.
SlotsReleasedAfter(phase) == IF phase = "pacing" THEN 1 ELSE 0

\* catch (err) of runTask for invocation k: task.attempts + 1, a retry timer or the
\* permanent failure, and the invocation goes on to its pacing sleep.
RunFailed(r, k) ==
  LET a == r.attempts + 1 IN
  [r EXCEPT !.attempts = a,
            !.timer = ShouldRetry(a),
            !.outcome = IF ShouldRetry(a) THEN @ ELSE "failed",
            !.run = [@ EXCEPT ![k] = "pacing"]]

\* the try block of runTask ran through for invocation k: on to the pacing sleep
RunSucceeded(r, k) == [r EXCEPT !.outcome = "succeeded", !.run = [@ EXCEPT ![k] = "pacing"]]

\* -------------------------------------------------------------- sessions
SessionExists(ss, sid) == ss[sid].status # "none"

\* createScrapeSession as INSERT OR REPLACE: a stored session is overwritten, nothing throws
BeginScrapeSessionReplacing(ss, sid, ts) ==
  [raised |-> FALSE,
   sessions |-> [ss EXCEPT ![sid] = [status |-> "running", videos_scraped |-> 0,
                                     errors |-> "null", started_at |-> ts,
                                     completed_at |-> -1, revisited |-> FALSE]]]

\* createScrapeSession: INSERT ... 'running'; session_id is UNIQUE, so a second insert throws
BeginScrapeSession(ss, sid, ts) ==
  IF SessionExists(ss, sid)
  THEN [raised |-> TRUE, sessions |-> ss]
  ELSE [raised |-> FALSE,
        sessions |-> [ss EXCEPT ![sid] = [status |-> "running", videos_scraped |-> 0,
                                          errors |-> "null", started_at |-> ts,
                                          completed_at |-> -1, revisited |-> FALSE]]]

\* completeScrapeSession: UPDATE ... WHERE session_id=@session_id, whatever the status;
\* an UPDATE that matches no row changes nothing and does not throw
FinishScrapeSession(ss, sid, n, ts) ==
  [raised |-> FALSE,
   sessions |-> IF SessionExists(ss, sid)
                THEN [ss EXCEPT ![sid] = [@ EXCEPT !.status = "completed",
                                                   !.completed_at = ts,
                                                   !.videos_scraped = n,
                                                   !.errors = "null",
                                                   !.revisited = @ \/ ss[sid].status \in Terminal]]
                ELSE ss]

\* failScrapeSession: UPDATE ... WHERE session_id=@session_id, whatever the status
FailScrapeSession(ss, sid, err, ts) ==
  [raised |-> FALSE,
   sessions |-> IF SessionExists(ss, sid)
                THEN [ss EXCEPT ![sid] = [@ EXCEPT !.status = "failed",
                                                   !.completed_at = ts,
                                                   !.errors = err,
                                                   !.revisited = @ \/ ss[sid].status \in Terminal]]
                ELSE ss]

\* ------------------------------------------------------------ the pipeline
\* run(scraper) of scrape:profileAndVideos up to its first await, for the invocation
\* that drain() starts: broadcast 'running', then beginScrapeSession outside the try,
\* which throws when the session_id is already stored (the retry of a job): runTask's
\* catch follows in the same tick.  A simple task starts scraper.scrapeProfile.
StartTask(r, ss, t) ==
  LET k == Executions(r) + 1 IN
  IF r.kind = "composite" /\ BeginScrapeSession(ss, t, now).raised
  THEN RunFailed(r, k)
  ELSE [r EXCEPT !.run = [@ EXCEPT ![k] = "profile"]]

\* this.drain() at the end of a handler, with runTask's synchronous start of every
\* admitted task
Settle(q1, a1, arr1, tk1, ev1, ss1) ==
  LET d == drain(q1, a1, arr1, <<>>)
      started == {d.admitted[i].task : i \in DOMAIN d.admitted}
      composite == {t \in started : tk1[t].kind = "composite"}
  IN /\ queue' = d.queue
     /\ active' = d.active
     /\ arrival' = d.arrival
     /\ admitted' = d.admitted
     /\ task' = [t \in Tasks |-> IF t \in started THEN StartTask(tk1[t], ss1, t) ELSE tk1[t]]
     /\ events' = [t \in Tasks |-> IF t \in composite THEN Broadcast(ev1[t], "running")
                                                       ELSE ev1[t]]
     /\ sessions' = [t \in Tasks |-> IF t \in composite
                                     THEN BeginScrapeSession(ss1, t, now).sessions[t]
                                     ELSE ss1[t]]

\* what a step of the queue leaves alone, but for the retry timers
Asleep ==
  UNCHANGED <<concurrency, now, ret, baseDelayMs, jitterMs, delay, videos, video_metrics, last,
              creators, browser, shutdown,
              proxy, scraper, callers, progress>>

Dormant == Asleep /\ UNCHANGED timers

\* scrape:enqueue, scrape:bulk (kd = "simple") and scrape:profileAndVideos
\* (kd = "composite"): q.add(task) = push, sort, drain.  Tasks are numbered in the
\* order of their submission; a composite job's session_id is fresh, here the task's
\* number.
add(t, kd) ==
  /\ task[t].kind = "none"
  /\ \A u \in Tasks : u < t => task[u].kind # "none"
  /\ LET tk1 == [task EXCEPT ![t] = NewTask(kd)] IN
     Settle(SortByPriority(tk1, Append(queue, t)), active, Append(arrival, t), tk1,
            events, sessions)
  /\ Dormant

\* setTimeout(() => { this.queue.push(task); this.drain(); }, delay) fires
RetryTimer(t) ==
  /\ task[t].timer
  /\ Settle(Append(queue, t), active, Append(arrival, t),
            [task EXCEPT ![t].timer = FALSE], events, sessions)
  /\ Dormant

\* the pacing sleep of invocation k is over: this.active--; this.drain()
PacingOver(t, k) ==
  /\ task[t].run[k] = "pacing"
  /\ Settle(queue, active - SlotsReleasedAfter("pacing"), arrival,
            [task EXCEPT ![t].run[k] = "done"], events, sessions)
  /\ Dormant

NoDrain == UNCHANGED <<queue, arrival>> /\ admitted' = <<>>

\* scraper.scrapeProfile resolves for a simple task: onSuccess stores the creator
\* (dbOk: the statements went through) and broadcasts 'success', or catches the
\* storage error and broadcasts 'error'; it never throws.
SimpleResolves(t, k) ==
  /\ task[t].kind = "simple" /\ task[t].run[k] = "profile"
  /\ \E dbOk \in BOOLEAN :
       events' = [events EXCEPT ![t] = Broadcast(@, IF dbOk THEN "success" ELSE "error")]
  /\ task' = [task EXCEPT ![t] = RunSucceeded(@, k)]
  /\ active' = active - SlotsReleasedAfter("profile")
  /\ UNCHANGED sessions
  /\ NoDrain /\ Dormant

\* scraper.scrapeProfile rejects for a simple task: runTask's catch, which awaits
\* onError (broadcast 'error') on every failed attempt
Rejects(t, k) ==
  /\ task[t].kind = "simple" /\ task[t].run[k] = "profile"
  /\ events' = [events EXCEPT ![t] = Broadcast(@, "error")]
  /\ task' = [task EXCEPT ![t] = RunFailed(@, k)]
  /\ active' = active - SlotsReleasedAfter("profile")
  /\ UNCHANGED sessions
  /\ NoDrain

SimpleRejects(t, k) == Rejects(t, k) /\ Dormant

\* errors: { message: err.message }: the text of the error, whichever it is
Message == "message"

\* catch (err) of the composite run: failScrapeSession, broadcast 'error', throw err,
\* and so runTask's catch; the job has no onError
CompositeFails(t, k, ss, err) ==
  /\ sessions' = FailScrapeSession(ss, t, err, now).sessions
  /\ events' = [events EXCEPT ![t] = Broadcast(@, "error")]
  /\ task' = [task EXCEPT ![t] = RunFailed(@, k)]
  /\ active' = active - SlotsReleasedAfter(task[t].run[k])
  /\ NoDrain /\ Dormant

\* scraper.scrapeProfile resolves in a composite job: the creator is stored and
\* scraper.scrapeVideos starts
ProfileResolves(t, k) ==
  /\ task[t].kind = "composite" /\ task[t].run[k] = "profile"
  /\ task' = [task EXCEPT ![t].run[k] = "videos"]
  /\ UNCHANGED <<active, events, sessions>>
  /\ NoDrain /\ Dormant

\* scraper.scrapeProfile rejects, or a creator statement throws, in a composite job
ProfileRejects(t, k) ==
  /\ task[t].kind = "composite" /\ task[t].run[k] = "profile"
  /\ CompositeFails(t, k, sessions, Message)

\* scraper.scrapeVideos rejects in a composite job
VideosRejects(t, k) ==
  /\ task[t].kind = "composite" /\ task[t].run[k] = "videos"
  /\ CompositeFails(t, k, sessions, Message)

\* the number of videos scraper.scrapeVideos resolves with: none, or as many as it may
Batch == {0, MaxVideos}

\* scraper.scrapeVideos resolves with n videos and db.transaction throws
TransactionFails(t, k) ==
  /\ task[t].kind = "composite" /\ task[t].run[k] = "videos"
  /\ CompositeFails(t, k, sessions, Message)

\* scraper.scrapeVideos resolves with n videos, the transaction commits,
\* finishScrapeSession marks the session, and then db.touchScraped throws: the catch
\* of the run calls failScrapeSession on the session just completed
TouchScrapedFails(t, k) ==
  /\ task[t].kind = "composite" /\ task[t].run[k] = "videos"
  /\ \E n \in Batch :
       CompositeFails(t, k, FinishScrapeSession(sessions, t, n, now).sessions, Message)

\* scraper.scrapeVideos resolves with n videos and the rest of the run goes through:
\* transaction, finishScrapeSession, touchScraped, broadcast 'success'
VideosIngested(t, k) ==
  /\ task[t].kind = "composite" /\ task[t].run[k] = "videos"
  /\ \E n \in Batch : sessions' = FinishScrapeSession(sessions, t, n, now).sessions
  /\ events' = [events EXCEPT ![t] = Broadcast(@, "success")]
  /\ task' = [task EXCEPT ![t] = RunSucceeded(@, k)]
  /\ active' = active - SlotsReleasedAfter("videos")
  /\ NoDrain /\ Dormant

NoCall == [op |-> "none", sid |-> 0, raised |-> FALSE, calls |-> 0]
NoDelay == [attempt |-> 0, random |-> 0, value |-> 0]
NoOp == [op |-> "none"]
NoTimer == [delay |-> 0, waited |-> 0]

\* new ProxyManager([]) with PROXIES unset: no proxy, this.index = 0, nothing returned yet
NoProxy == [proxies |-> <<>>, index |-> 0, log |-> <<>>]

\* new InstagramScraper(): no puppeteer.launch pending, no browser launched, none left
\* without a reference.  History: the close() calls that returned since the last launch,
\* whether one of them threw, and whether a browser was launched after a close().
NoScraper ==
  [launching |-> 0, launched |-> 0, unreferenced |-> 0, closes |-> 0, raised |-> FALSE,
   recreated |-> FALSE]

\* the callers of the scraper: 0 is the handler of system:health, the others are the
\* fetches of the running tasks
Health == 0
Callers == 0..NumTasks

\* new ScraperQueue({ intervalMs: 2000 }), or one configured with a lower concurrency;
\* nothing submitted, no session stored
Init ==
  /\ concurrency \in 1..DefaultConcurrency
  /\ queue = <<>>
  /\ active = 0
  /\ task = [t \in Tasks |-> NotSubmitted]
  /\ events = [t \in Tasks |-> NoEvents]
  /\ sessions = [t \in Tasks |-> NoSession]
  /\ arrival = <<>>
  /\ admitted = <<>>
  /\ now = 0
  /\ ret = NoCall
  /\ baseDelayMs = 1000
  /\ jitterMs = 250
  /\ delay = NoDelay
  /\ videos = <<>>
  /\ video_metrics = <<>>
  /\ last = NoOp
  /\ creators = <<>>
  /\ timers = [t \in Tasks |-> NoTimer]
  /\ browser = "null"
  /\ shutdown = "no"
  /\ proxy = NoProxy
  /\ scraper = NoScraper
  /\ callers = [c \in Callers |-> "idle"]
  /\ progress = [t \in Tasks |-> <<>>]

Next ==
  \/ \E t \in Tasks, kd \in Kinds : add(t, kd)
  \/ \E t \in Tasks : RetryTimer(t)
  \/ \E t \in Tasks, k \in RunIds :
       \/ PacingOver(t, k)
       \/ SimpleResolves(t, k)
       \/ SimpleRejects(t, k)
       \/ ProfileResolves(t, k)
       \/ ProfileRejects(t, k)
       \/ VideosRejects(t, k)
       \/ TransactionFails(t, k)
       \/ TouchScrapedFails(t, k)
       \/ VideosIngested(t, k)

Spec == Init /\ [][Next]_vars

\* the fetch that invocation k awaits completes, one way or the other
Completes(t, k) ==
  \/ SimpleResolves(t, k)
  \/ SimpleRejects(t, k)
  \/ ProfileResolves(t, k)
  \/ ProfileRejects(t, k)
  \/ VideosRejects(t, k)
  \/ TransactionFails(t, k)
  \/ TouchScrapedFails(t, k)
  \/ VideosIngested(t, k)

\* a callback that is due runs: a retry timer, the end of a pacing sleep, or the
\* completion of a fetch
Progress ==
  \/ \E t \in Tasks : RetryTimer(t)
  \/ \E t \in Tasks, k \in RunIds : PacingOver(t, k) \/ Completes(t, k)

\* Every started fetch completes (the scraper sets navigation timeouts) and every
\* pacing sleep and retry timer fires; the event loop runs the callbacks that are due.
\* Stated in its weakest form: while some callback is due, one of them runs.  New
\* submissions are never forced.
FairSpec == Spec /\ WF_vars(Progress)

\* ------------------------------------------------------------- backoffDelay
RECURSIVE Pow2(_)
Pow2(n) == IF n <= 0 THEN 1 ELSE 2 * Pow2(n - 1)

\* Math.pow(2, attempt) for Math.pow(2, attempt - 1)
backoffDelayFromAttempt(attempt, r) ==
  baseDelayMs * Pow2(attempt) + ((r * jitterMs) \div RandomSteps)

\* backoffDelay(attempt) with Math.random() = r / RandomSteps:
\* baseDelayMs * 2^(attempt-1) + Math.floor(Math.random() * jitterMs)
backoffDelay(attempt, r) ==
  LET exp == Pow2(attempt - 1)
      base == baseDelayMs * exp
      jitter == (r * jitterMs) \div RandomSteps
  IN base + jitter

\* a queue constructed with any baseDelayMs and jitterMs
BackoffInit ==
  /\ concurrency = DefaultConcurrency
  /\ queue = <<>>
  /\ active = 0
  /\ task = [t \in Tasks |-> NotSubmitted]
  /\ events = [t \in Tasks |-> NoEvents]
  /\ sessions = [t \in Tasks |-> NoSession]
  /\ arrival = <<>>
  /\ admitted = <<>>
  /\ now = 0
  /\ ret = NoCall
  /\ baseDelayMs \in 0..MaxBaseDelay
  /\ jitterMs \in 0..MaxJitter
  /\ delay = NoDelay
  /\ videos = <<>>
  /\ video_metrics = <<>>
  /\ last = NoOp
  /\ creators = <<>>
  /\ timers = [t \in Tasks |-> NoTimer]
  /\ browser = "null"
  /\ shutdown = "no"
  /\ proxy = NoProxy
  /\ scraper = NoScraper
  /\ callers = [c \in Callers |-> "idle"]
  /\ progress = [t \in Tasks |-> <<>>]

CallBackoffDelay ==
  /\ \E a \in 1..MaxAttempt, r \in 0..(RandomSteps - 1) :
       delay' = [attempt |-> a, random |-> r, value |-> backoffDelay(a, r)]
  /\ UNCHANGED <<concurrency, queue, active, task, events, sessions, arrival, admitted,
                 now, ret, baseDelayMs, jitterMs, videos, video_metrics, last, creators,
                 timers, browser, shutdown,
              proxy, scraper, callers, progress>>

BackoffSpec == BackoffInit /\ [][CallBackoffDelay]_vars

\* ------------------------------------------------- the session statements
\* db.beginScrapeSession, db.finishScrapeSession and db.failScrapeSession as any
\* caller of the exported db may call them, in any order, on any session_id
Errors == {Message, "other message"}
QueueIdle == UNCHANGED <<concurrency, queue, active, task, events, arrival, admitted,
                         baseDelayMs, jitterMs, delay, timers, browser, shutdown,
              proxy, scraper, callers, progress>>
StorageIdle == UNCHANGED <<videos, video_metrics, last, creators>>
Called(op, sid, raised) == [op |-> op, sid |-> sid, raised |-> raised, calls |-> ret.calls + 1]

CallBegin(sid) ==
  /\ ret.calls < MaxCalls
  /\ sessions' = BeginScrapeSession(sessions, sid, now).sessions
  /\ ret' = Called("begin", sid, BeginScrapeSession(sessions, sid, now).raised)
  /\ UNCHANGED now /\ QueueIdle /\ StorageIdle

CallFinish(sid, n) ==
  /\ ret.calls < MaxCalls
  /\ sessions' = FinishScrapeSession(sessions, sid, n, now).sessions
  /\ ret' = Called("complete", sid, FinishScrapeSession(sessions, sid, n, now).raised)
  /\ UNCHANGED now /\ QueueIdle /\ StorageIdle

CallFail(sid, err) ==
  /\ ret.calls < MaxCalls
  /\ sessions' = FailScrapeSession(sessions, sid, err, now).sessions
  /\ ret' = Called("fail", sid, FailScrapeSession(sessions, sid, err, now).raised)
  /\ UNCHANGED now /\ QueueIdle /\ StorageIdle

\* CURRENT_TIMESTAMP moves on
Tick ==
  /\ ret.calls < MaxCalls
  /\ now' = now + 1
  /\ ret' = Called("tick", 0, FALSE)
  /\ UNCHANGED sessions /\ QueueIdle /\ StorageIdle

TrackerNext ==
  \/ \E sid \in Tasks : CallBegin(sid)
  \/ \E sid \in Tasks, n \in 0..MaxVideos : CallFinish(sid, n)
  \/ \E sid \in Tasks, err \in Errors : CallFail(sid, err)
  \/ Tick

TrackerSpec == Init /\ [][TrackerNext]_vars

\* ------------------------------------------------------ videos and samples
Null == "null"
Nullable == {Null, "a", "b"}
Captions == {"a", "b"}
\* instagram_post_id: shortcode || postUrl and instagram_shortcode: shortcode || null, for
\* posts whose shortcode was found
PostIds == {"c1", "c2"}
\* the counts the scraper parsed from a post page
Steady == [likes_count |-> 10, views_count |-> 100]
Readings == {Steady, [likes_count |-> 30, views_count |-> 0]}

\* db.getCreatorByUsername(username).id of the job's creator
CreatorId == 1

\* one element of the array scraper.scrapeVideos resolves with
RawPost(id, r) ==
  [instagram_post_id |-> id, instagram_shortcode |-> id, is_reel |-> TRUE, caption |-> "a",
   posted_date |-> "a", video_url |-> Null, thumbnail_url |-> "a",
   views_count |-> r.views_count, likes_count |-> r.likes_count, comments_count |-> 0,
   shares_count |-> 0, saves_count |-> 0]

\* a post whose counts differ from one fetch to the other, and one whose counts stay
RawPosts == {RawPost("c1", r) : r \in Readings} \cup {RawPost("c2", Steady)}

\* the arrays of at most n posts
RECURSIVE Arrays(_)
Arrays(n) ==
  IF n = 0 THEN {<<>>}
  ELSE LET shorter == Arrays(n - 1) IN
       shorter \cup {Append(b, v) : b \in {c \in shorter : Len(c) = n - 1}, v \in RawPosts}

\* excluded.x in place of COALESCE(excluded.x, videos.x)
Excluded(new, old) == new

\* COALESCE(excluded.x, videos.x)
Coalesce(new, old) == IF new # Null THEN new ELSE old

\* upsertVideo as an INSERT into a table without the UNIQUE constraint on instagram_post_id
upsertVideoInsertOnly(vs, creator_id, v, ts) ==
  [raised |-> FALSE,
   videos |-> Append(vs, [id |-> Len(vs) + 1, creator_id |-> creator_id,
                          instagram_post_id |-> v.instagram_post_id,
                          instagram_shortcode |-> v.instagram_shortcode,
                          is_reel |-> v.is_reel, caption |-> v.caption,
                          posted_date |-> v.posted_date, video_url |-> v.video_url,
                          thumbnail_url |-> v.thumbnail_url, updated_at |-> ts])]

\* db.upsertVideo(creator_id, v): INSERT INTO videos ... ON CONFLICT(instagram_post_id)
\* DO UPDATE SET ...  The statement throws when instagram_post_id is null (NOT NULL) or
\* when another post holds the shortcode (instagram_shortcode UNIQUE), and then changes
\* nothing.  id is AUTOINCREMENT and no row is ever deleted; updated_at defaults to
\* CURRENT_TIMESTAMP on insert and is set to it on update.
upsertVideo(vs, creator_id, v, ts) ==
  LET conflict == {i \in DOMAIN vs : vs[i].instagram_post_id = v.instagram_post_id}
      taken == {i \in DOMAIN vs : /\ vs[i].instagram_post_id # v.instagram_post_id
                                  /\ v.instagram_shortcode # Null
                                  /\ vs[i].instagram_shortcode = v.instagram_shortcode}
  IN IF v.instagram_post_id = Null \/ taken # {}
     THEN [raised |-> TRUE, videos |-> vs]
     ELSE IF conflict = {}
     THEN [raised |-> FALSE,
           videos |-> Append(vs, [id |-> Len(vs) + 1, creator_id |-> creator_id,
                                  instagram_post_id |-> v.instagram_post_id,
                                  instagram_shortcode |-> v.instagram_shortcode,
                                  is_reel |-> v.is_reel, caption |-> v.caption,
                                  posted_date |-> v.posted_date, video_url |-> v.video_url,
                                  thumbnail_url |-> v.thumbnail_url, updated_at |-> ts])]
     ELSE [raised |-> FALSE,
           videos |-> [i \in DOMAIN vs |->
                        IF i \in conflict
                        THEN [vs[i] EXCEPT
                                !.instagram_shortcode = v.instagram_shortcode,
                                !.is_reel = v.is_reel,
                                !.caption = v.caption,
                                !.posted_date = Coalesce(v.posted_date, @),
                                !.video_url = Coalesce(v.video_url, @),
                                !.thumbnail_url = Coalesce(v.thumbnail_url, @),
                                !.updated_at = ts]
                        ELSE vs[i]]]

\* getVideoByPostId: SELECT id FROM videos WHERE instagram_post_id = ?; 0 for no row
getVideoByPostId(vs, post_id) ==
  LET found == {i \in DOMAIN vs : vs[i].instagram_post_id = post_id}
  IN IF found = {} THEN 0 ELSE vs[CHOOSE i \in found : TRUE].id

\* getLastMetrics: SELECT likes_count, ... WHERE video_id=? ORDER BY recorded_at DESC
\* LIMIT 1.  recorded_at has the resolution of CURRENT_TIMESTAMP, and among the rows
\* that share the greatest recorded_at SQL leaves the one returned open: every one of
\* them may be.  The set is empty when the video has no sample.
getLastMetrics(ms, video_id) ==
  LET mine == {i \in DOMAIN ms : ms[i].video_id = video_id}
      newest == {i \in mine : \A j \in mine : ms[j].recorded_at <= ms[i].recorded_at}
  IN {ms[i] : i \in newest}

\* m.x != null, for a count: a count is a number from 0 on, null is written as a
\* negative number
NotNull(x) == x >= 0

\* the sample always counted as a first one: the deltas are left at 0
insertVideoMetricsFromZero(ms, video_id, m, session, ts) ==
  {Append(ms, [id |-> Len(ms) + 1, video_id |-> video_id,
               views_count |-> IF NotNull(m.views_count) THEN m.views_count ELSE 0,
               likes_count |-> IF NotNull(m.likes_count) THEN m.likes_count ELSE 0,
               comments_count |-> m.comments_count, shares_count |-> m.shares_count,
               saves_count |-> m.saves_count, likes_delta |-> 0, views_delta |-> 0,
               recorded_at |-> ts, scrape_session_id |-> session])}

\* db.insertVideoMetrics(video_id, m, session): the tables that may result, one per
\* row getLastMetrics may return.  last is { likes_count: 0, views_count: 0 } when the
\* video has no sample; a delta is m.x - last.x, or 0 when m.x is null.
insertVideoMetrics(ms, video_id, m, session, ts) ==
  LET found == getLastMetrics(ms, video_id)
      lasts == IF found = {} THEN {[likes_count |-> 0, views_count |-> 0]}
               ELSE {[likes_count |-> r.likes_count, views_count |-> r.views_count] : r \in found}
  IN {Append(ms, [id |-> Len(ms) + 1, video_id |-> video_id,
                  views_count |-> IF NotNull(m.views_count) THEN m.views_count ELSE 0,
                  likes_count |-> IF NotNull(m.likes_count) THEN m.likes_count ELSE 0,
                  comments_count |-> m.comments_count, shares_count |-> m.shares_count,
                  saves_count |-> m.saves_count,
                  likes_delta |-> IF NotNull(m.likes_count)
                                  THEN m.likes_count - l.likes_count ELSE 0,
                  views_delta |-> IF NotNull(m.views_count)
                                  THEN m.views_count - l.views_count ELSE 0,
                  recorded_at |-> ts, scrape_session_id |-> session]) : l \in lasts}

\* the argument of db.upsertVideo in the composite run
VideoFields(v) ==
  [instagram_post_id |-> v.instagram_post_id, instagram_shortcode |-> v.instagram_shortcode,
   is_reel |-> IF v.is_reel THEN 1 ELSE 0, caption |-> v.caption,
   posted_date |-> v.posted_date, video_url |-> v.video_url,
   thumbnail_url |-> v.thumbnail_url]

\* the argument of db.insertVideoMetrics in the composite run
MetricFields(v) ==
  [views_count |-> v.views_count, likes_count |-> v.likes_count,
   comments_count |-> v.comments_count, shares_count |-> v.shares_count,
   saves_count |-> v.saves_count]

\* the videos_scraped++ of the loop moved in front of the loop body's statements, so
\* that a post is counted once more
CountedTwice(n) == n + 2

\* videos_scraped++
Counted(n) == n + 1

\* the callback given to db.transaction, from post i of the array on: upsertVideo,
\* getVideoByPostId, insertVideoMetrics, videos_scraped++.  fault numbers the statement
\* at which storage throws: 2i - 1 the upsert of post i, 2i its metric insert; any other
\* number none.  The result is the set of ends the callback may come to: the tables as
\* it left them, videos_scraped, and whether it threw.
RECURSIVE IngestFrom(_, _, _, _, _, _)
IngestFrom(videosArr, i, w, session, fault, ts) ==
  IF i > Len(videosArr) THEN {w}
  ELSE LET v == videosArr[i]
           up == upsertVideo(w.videos, CreatorId, VideoFields(v), ts)
           vidRow == getVideoByPostId(up.videos, v.instagram_post_id)
       IN IF fault = 2 * i - 1 \/ up.raised THEN {[w EXCEPT !.thrown = TRUE]}
          ELSE IF vidRow = 0
          THEN IngestFrom(videosArr, i + 1, [w EXCEPT !.videos = up.videos], session, fault, ts)
          ELSE IF fault = 2 * i THEN {[w EXCEPT !.videos = up.videos, !.thrown = TRUE]}
          ELSE UNION {IngestFrom(videosArr, i + 1,
                                 [videos |-> up.videos, video_metrics |-> ms,
                                  videos_scraped |-> Counted(w.videos_scraped),
                                  thrown |-> FALSE],
                                 session, fault, ts) :
                        ms \in insertVideoMetrics(w.video_metrics, vidRow, MetricFields(v),
                                                  session, ts)}

\* a transaction that keeps what its callback wrote before it threw
KeepWritten(before, written) == written

\* this.db.transaction(fn)(): BEGIN, fn, COMMIT, and ROLLBACK when fn throws
Rollback(before, written) == before

\* db.transaction(() => { for (const v of videos) ... }): the ends it may come to
transaction(vs, ms, videosArr, session, fault, ts) ==
  LET begun == [videos |-> vs, video_metrics |-> ms, videos_scraped |-> 0, thrown |-> FALSE]
  IN {IF e.thrown
      THEN [e EXCEPT !.videos = Rollback(vs, @), !.video_metrics = Rollback(ms, @)]
      ELSE e : e \in IngestFrom(videosArr, 1, begun, session, fault, ts)}

\* CURRENT_TIMESTAMP moves on to the next second.  Seconds in which nothing was written
\* to videos or video_metrics are not counted: they change no order and no tie.
ClockAdvances ==
  /\ \/ \E i \in DOMAIN videos : videos[i].updated_at = now
     \/ \E i \in DOMAIN video_metrics : video_metrics[i].recorded_at = now
  /\ now' = now + 1
  /\ UNCHANGED <<sessions, ret, videos, video_metrics, last, creators>>
  /\ QueueIdle

\* --------------------------------------- the storage side of a composite job
\* run(scraper) of scrape:profileAndVideos as storage sees it: beginScrapeSession when
\* the job starts, and, when scraper.scrapeVideos has resolved, the rest of the run in
\* one tick: the transaction, finishScrapeSession, touchScraped, or the catch.  A job
\* starts when the queue has a slot for it, so at most concurrency jobs are between
\* the two.  The session_ids are fresh random strings: the jobs are numbered here in
\* the order in which their runs end.
InFlight == {sid \in Tasks : sessions[sid].status = "running"}
EndsNext(sid) ==
  /\ sessions[sid].status = "running"
  /\ \A u \in Tasks : u < sid => sessions[u].status \in Terminal

JobBegins(sid) ==
  /\ sessions[sid].status = "none"
  /\ Cardinality(InFlight) < concurrency
  /\ sessions' = BeginScrapeSession(sessions, sid, now).sessions
  /\ UNCHANGED <<now, ret>> /\ QueueIdle /\ StorageIdle

\* scraper.scrapeProfile or scraper.scrapeVideos rejects: the catch of the run
JobFetchFails(sid) ==
  /\ EndsNext(sid)
  /\ sessions' = FailScrapeSession(sessions, sid, Message, now).sessions
  /\ UNCHANGED <<now, ret>> /\ QueueIdle /\ StorageIdle

\* scraper.scrapeVideos resolves with videosArr.  fault = 2 * Len(videosArr) + 1 is
\* db.touchScraped throwing, after the commit and finishScrapeSession.
JobIngests(sid, videosArr, fault) ==
  /\ EndsNext(sid)
  /\ Len(video_metrics) + Len(videosArr) <= MaxSamples
  /\ \E e \in transaction(videos, video_metrics, videosArr, sid, fault, now) :
       /\ videos' = e.videos
       /\ video_metrics' = e.video_metrics
       /\ sessions' =
            IF e.thrown THEN FailScrapeSession(sessions, sid, Message, now).sessions
            ELSE LET done == FinishScrapeSession(sessions, sid, e.videos_scraped, now).sessions
                 IN IF fault = 2 * Len(videosArr) + 1
                    THEN FailScrapeSession(done, sid, Message, now).sessions
                    ELSE done
       /\ last' = [op |-> "ingest", sid |-> sid, fetched |-> Len(videosArr),
                   fault |-> fault, thrown |-> e.thrown]
  /\ UNCHANGED <<now, ret, creators>> /\ QueueIdle

\* the arrays scraper.scrapeVideos may resolve with
Batches == Arrays(MaxVideos)

IngestNext ==
  \/ \E sid \in Tasks : JobBegins(sid)
  \/ \E sid \in Tasks : JobFetchFails(sid)
  \/ \E sid \in Tasks, videosArr \in Batches :
       \E fault \in 0..(2 * Len(videosArr) + 1) : JobIngests(sid, videosArr, fault)
  \/ ClockAdvances

\* the queue of getQueue(): new ScraperQueue({ intervalMs: 2000 }); nothing stored
IngestInit == Init /\ concurrency = DefaultConcurrency

IngestSpec == IngestInit /\ [][IngestNext]_vars

\* ------------------------------------------------------------ db.upsertVideo
\* db.upsertVideo as any caller of the exported db may call it
\* posted_date, video_url and thumbnail_url as they may come in: nothing known, or
\* each of them in turn null, one value, or another value
Partial ==
  {<<Null, Null, Null>>, <<Null, "a", "b">>, <<"a", "b", Null>>, <<"b", Null, "a">>}

VideoInputs ==
  {[instagram_post_id |-> id, instagram_shortcode |-> id, is_reel |-> 1, caption |-> c,
    posted_date |-> p[1], video_url |-> p[2], thumbnail_url |-> p[3]] :
     id \in PostIds, c \in Captions, p \in Partial}

\* stored: the post of the call had a row already; repeat: the call before this one
\* was an upsertVideo with the same argument
CallUpsertVideo(v) ==
  /\ ret.calls < MaxCalls
  /\ videos' = upsertVideo(videos, CreatorId, v, now).videos
  /\ last' = [op |-> "upsertVideo", v |-> v,
              stored |-> getVideoByPostId(videos, v.instagram_post_id) # 0,
              repeat |-> last.op = "upsertVideo" /\ last.v = v]
  /\ ret' = Called("upsertVideo", 0, upsertVideo(videos, CreatorId, v, now).raised)
  /\ UNCHANGED <<sessions, now, video_metrics, creators>> /\ QueueIdle

UpsertNext ==
  \/ \E v \in VideoInputs : CallUpsertVideo(v)
  \/ ClockAdvances

UpsertSpec == Init /\ [][UpsertNext]_vars

\* ---------------------------------------------------------------- creators
\* usernames as the handlers accept them (/^[A-Za-z0-9._-]+$/): two that differ in the
\* case of a letter only, and another one
Usernames == {"alice", "Alice", "bob"}

\* the BINARY collation in place of NOCASE
Binary(u) == u

\* username TEXT UNIQUE NOT NULL COLLATE NOCASE: the upper-case ASCII letters compare as
\* the lower-case ones, in the UNIQUE index and in WHERE username = ?
NoCase(u) == IF u = "Alice" THEN "alice" ELSE u

\* the counts and flags of a creator as a caller passes them: all null (scrapeProfile
\* returns username and display_name only, so data.x ?? null is null, and the composite
\* job passes null), or all known.  null is written as a negative number.
Unknown ==
  [follower_count |-> -1, following_count |-> -1, posts_count |-> -1, is_verified |-> -1,
   is_private |-> -1]
Known ==
  [follower_count |-> 500, following_count |-> 20, posts_count |-> 7, is_verified |-> 1,
   is_private |-> 0]

\* the argument of db.upsertCreatorMeta
Meta(username, display_name, c) ==
  [username |-> username, display_name |-> display_name,
   follower_count |-> c.follower_count, following_count |-> c.following_count,
   posts_count |-> c.posts_count, is_verified |-> c.is_verified, is_private |-> c.is_private]

\* display_name: document.title without its suffix, || null
DisplayNames == {Null, "a"}

\* what scraper.scrapeProfile resolves with: { username, display_name }
Profiles == {[username |-> u, display_name |-> d] : u \in Usernames, d \in DisplayNames}

CreatorMetas == {Meta(u, d, c) : u \in Usernames, d \in DisplayNames, c \in {Unknown, Known}}

\* getCreatorByUsername: SELECT id, username FROM creators WHERE username = ?; 0 for no row
getCreatorByUsername(cs, username) ==
  LET found == {i \in DOMAIN cs : NoCase(cs[i].username) = NoCase(username)}
  IN IF found = {} THEN 0 ELSE cs[CHOOSE i \in found : TRUE].id

\* db.addCreator: INSERT OR IGNORE INTO creators (username, display_name): a username
\* that is stored already leaves the table as it is; the other columns take their
\* defaults.  id is AUTOINCREMENT.
addCreator(cs, username, display_name, ts) ==
  IF getCreatorByUsername(cs, username) # 0 THEN cs
  ELSE Append(cs, [id |-> Len(cs) + 1, username |-> username, display_name |-> display_name,
                   follower_count |-> 0, following_count |-> 0, posts_count |-> 0,
                   is_verified |-> 0, is_private |-> 0, last_scraped |-> -1,
                   last_successful_scrape |-> -1, scrape_failures |-> 0, updated_at |-> ts])

\* db.upsertCreatorMeta: INSERT ... ON CONFLICT(username) DO UPDATE SET
\* display_name=excluded.display_name, follower_count=excluded.follower_count, ...,
\* last_successful_scrape=CURRENT_TIMESTAMP, updated_at=CURRENT_TIMESTAMP.  The stored
\* username stays as it was first written.
upsertCreatorMeta(cs, meta, ts) ==
  IF getCreatorByUsername(cs, meta.username) = 0
  THEN Append(cs, [id |-> Len(cs) + 1, username |-> meta.username,
                   display_name |-> meta.display_name,
                   follower_count |-> meta.follower_count,
                   following_count |-> meta.following_count,
                   posts_count |-> meta.posts_count, is_verified |-> meta.is_verified,
                   is_private |-> meta.is_private, last_scraped |-> -1,
                   last_successful_scrape |-> ts, scrape_failures |-> 0, updated_at |-> ts])
  ELSE [i \in DOMAIN cs |->
         IF NoCase(cs[i].username) = NoCase(meta.username)
         THEN [cs[i] EXCEPT !.display_name = meta.display_name,
                            !.follower_count = meta.follower_count,
                            !.following_count = meta.following_count,
                            !.posts_count = meta.posts_count,
                            !.is_verified = meta.is_verified,
                            !.is_private = meta.is_private,
                            !.last_successful_scrape = ts,
                            !.updated_at = ts]
         ELSE cs[i]]

\* db.touchScraped(id): UPDATE creators SET last_scraped = CURRENT_TIMESTAMP WHERE id = ?,
\* and the trigger update_creators_timestamp
touchScraped(cs, id, ts) ==
  [i \in DOMAIN cs |-> IF cs[i].id = id THEN [cs[i] EXCEPT !.last_scraped = ts, !.updated_at = ts]
                                        ELSE cs[i]]

\* the creator statements that follow a resolved scrapeProfile, in scrape:enqueue's
\* onSuccess and in the composite run: getCreatorByUsername, addCreator when there is no
\* row, upsertCreatorMeta with the counts and flags null
StoreProfile(cs, data, ts) ==
  LET added == IF getCreatorByUsername(cs, data.username) = 0
               THEN addCreator(cs, data.username, data.display_name, ts)
               ELSE cs
  IN upsertCreatorMeta(added, Meta(data.username, data.display_name, Unknown), ts)

\* stored: the username of the call had a row already
CreatorCall(op, sid, meta) ==
  [op |-> op, sid |-> sid, meta |-> meta, stored |-> getCreatorByUsername(creators, meta.username) # 0]

CreatorsOnly == UNCHANGED <<sessions, now, videos, video_metrics>> /\ QueueIdle

\* the db:add-creator handler: db.addCreator(value.username, value.displayName ?? null)
CallAddCreator(data) ==
  /\ ret.calls < MaxCalls
  /\ creators' = addCreator(creators, data.username, data.display_name, now)
  /\ last' = CreatorCall("addCreator", 0, Meta(data.username, data.display_name, Unknown))
  /\ ret' = Called("addCreator", 0, FALSE)
  /\ CreatorsOnly

\* db.upsertCreatorMeta as any caller of the exported db may call it
CallUpsertCreatorMeta(meta) ==
  /\ ret.calls < MaxCalls
  /\ creators' = upsertCreatorMeta(creators, meta, now)
  /\ last' = CreatorCall("upsertCreatorMeta", 0, meta)
  /\ ret' = Called("upsertCreatorMeta", 0, FALSE)
  /\ CreatorsOnly

\* onSuccess of a scrape:enqueue or scrape:bulk task, called with what scrapeProfile
\* resolved with: the creator statements, then getCreatorByUsername and touchScraped
OnSuccess(data) ==
  /\ ret.calls < MaxCalls
  /\ LET stored == StoreProfile(creators, data, now)
     IN creators' = touchScraped(stored, getCreatorByUsername(stored, data.username), now)
  /\ last' = CreatorCall("onSuccess", 0, Meta(data.username, data.display_name, Unknown))
  /\ ret' = Called("onSuccess", 0, FALSE)
  /\ CreatorsOnly

\* scraper.scrapeProfile resolves in the composite job of session sid: the creator
\* statements.  A job is not followed from one await to the next here: its session is
\* running, and the username is the one it was submitted with.
JobStoresCreator(sid, data) ==
  /\ ret.calls < MaxCalls
  /\ sessions[sid].status = "running"
  /\ creators' = StoreProfile(creators, data, now)
  /\ last' = CreatorCall("job", sid, Meta(data.username, data.display_name, Unknown))
  /\ ret' = Called("job", sid, FALSE)
  /\ CreatorsOnly

\* the end of a composite run whose creator is stored: finishScrapeSession and
\* db.touchScraped(creator.id)
JobTouchesCreator(sid, username) ==
  /\ ret.calls < MaxCalls
  /\ EndsNext(sid)
  /\ getCreatorByUsername(creators, username) # 0
  /\ sessions' = FinishScrapeSession(sessions, sid, 0, now).sessions
  /\ creators' = touchScraped(creators, getCreatorByUsername(creators, username), now)
  /\ last' = [op |-> "touch", sid |-> sid]
  /\ ret' = Called("touch", sid, FALSE)
  /\ UNCHANGED <<now, videos, video_metrics>> /\ QueueIdle

CreatorNext ==
  \/ \E data \in Profiles : CallAddCreator(data)
  \/ \E meta \in CreatorMetas : CallUpsertCreatorMeta(meta)
  \/ \E data \in Profiles : OnSuccess(data)
  \/ \E sid \in Tasks : JobBegins(sid)
  \/ \E sid \in Tasks, data \in Profiles : JobStoresCreator(sid, data)
  \/ \E sid \in Tasks : JobFetchFails(sid)
  \/ \E sid \in Tasks, username \in Usernames : JobTouchesCreator(sid, username)

CreatorSpec == IngestInit /\ [][CreatorNext]_vars

\* ------------------------------------------------------------ retry timers
\* the queue with the time its retry timers take, for tasks of scrape:enqueue.  Time is
\* counted in milliseconds, per timer: the delay it was set with and the time it has
\* waited since.

\* this.backoffDelay called with the attempts counter as it was before the increment
BackoffAttemptBeforeIncrement(r) == r.attempts

\* task.attempts = (task.attempts ?? 0) + 1; const delay = this.backoffDelay(task.attempts)
BackoffAttempt(r) == r.attempts + 1

\* scraper.scrapeProfile rejects: runTask's catch, with setTimeout(..., delay) called in
\* the tick of the failure when the task is to be retried
TimedRejects(t, k) ==
  /\ Rejects(t, k)
  /\ \E r \in 0..(RandomSteps - 1) :
       timers' = [timers EXCEPT ![t] =
                    IF task'[t].timer
                    THEN [delay |-> backoffDelay(BackoffAttempt(task[t]), r), waited |-> 0]
                    ELSE @]
  /\ Asleep

\* a timer fires when it has waited its delay, or later
TimedRetry(t) ==
  /\ timers[t].waited >= timers[t].delay
  /\ RetryTimer(t)

\* the timers that are waiting for their delay to elapse
Waiting == {t \in Tasks : task[t].timer /\ timers[t].waited < timers[t].delay}

\* time passes, up to the instant at which the next timer is due: nothing but the
\* timers depends on it
TimePasses ==
  /\ Waiting # {}
  /\ LET next == CHOOSE t \in Waiting :
                   \A u \in Waiting : timers[t].delay - timers[t].waited
                                        <= timers[u].delay - timers[u].waited
         ms == timers[next].delay - timers[next].waited
     IN timers' = [t \in Tasks |-> IF task[t].timer THEN [timers[t] EXCEPT !.waited = @ + ms]
                                                     ELSE timers[t]]
  /\ UNCHANGED <<queue, active, task, events, sessions, arrival, admitted>>
  /\ Asleep

\* as many tasks as the queue has slots are submitted
RetryNext ==
  \/ \E t \in Tasks : t <= concurrency /\ add(t, "simple")
  \/ \E t \in Tasks : TimedRetry(t)
  \/ \E t \in Tasks, k \in RunIds : PacingOver(t, k)
  \/ \E t \in Tasks, k \in RunIds : SimpleResolves(t, k)
  \/ \E t \in Tasks, k \in RunIds : TimedRejects(t, k)
  \/ TimePasses

\* new ScraperQueue({ baseDelayMs, jitterMs }) with a positive base delay, without
\* jitter or with it
RetryInit ==
  /\ BackoffInit
  /\ baseDelayMs > 0
  /\ jitterMs \in {0, MaxJitter}

RetrySpec == RetryInit /\ [][RetryNext]_vars

\* ----------------------------------------------------------------- shutdown
\* the queue of getQueue() with the browser of its scraper and the shutdown of main.cjs,
\* for tasks of scrape:enqueue

\* a fetch is in progress: scrapeProfile has called init() and works on its page
Fetching == \E t \in Tasks, k \in RunIds : task[t].run[k] \in {"profile", "videos"}

\* the process runs: app.exit has not been called
Up == shutdown # "exited"

QueueKept ==
  /\ UNCHANGED <<concurrency, active, task, events, sessions, now, ret, baseDelayMs, jitterMs,
                 delay, videos, video_metrics, last, creators, timers, proxy, scraper,
                 callers, progress>>
  /\ NoDrain

\* init(): if (this.browser) return; this.browser = await puppeteer.launch(...): the
\* launch resolves for a fetch that found no browser
Launch ==
  /\ Up /\ browser = "null" /\ Fetching
  /\ browser' = "open"
  /\ UNCHANGED shutdown
  /\ QueueKept

\* SIGINT, SIGTERM or before-quit: shutdown() awaits queueRef.close(), which awaits
\* this.scraper.close(): if (this.browser) { await this.browser.close(); ... }.  The
\* browser starts to close in this tick; without a browser nothing is awaited and the
\* finally of shutdown() calls app.exit.
close ==
  /\ shutdown = "no"
  /\ IF browser = "open"
     THEN browser' = "closing" /\ shutdown' = "requested"
     ELSE browser' = browser /\ shutdown' = "exited"
  /\ QueueKept

\* browser.close() resolves: this.browser = null, close() returns, app.exit(code)
BrowserClosed ==
  /\ shutdown = "requested" /\ browser = "closing"
  /\ browser' = "null"
  /\ shutdown' = "exited"
  /\ QueueKept

ShutdownNext ==
  \/ \E t \in Tasks : Up /\ add(t, "simple")
  \/ \E t \in Tasks : Up /\ RetryTimer(t)
  \/ \E t \in Tasks, k \in RunIds : Up /\ PacingOver(t, k)
  \/ \E t \in Tasks, k \in RunIds : Up /\ SimpleResolves(t, k)
  \/ \E t \in Tasks, k \in RunIds : Up /\ SimpleRejects(t, k)
  \/ Launch
  \/ close
  \/ BrowserClosed

ShutdownSpec == IngestInit /\ [][ShutdownNext]_vars

\* ---------------------------------------------------------------- broadcast
\* the handlers with a broadcast that may fail: BrowserWindow.getAllWindows() or
\* webContents.send (a window that was destroyed) throws.  events counts the events
\* that went out to the windows.
Outcomes == {"sent", "throws"}

\* broadcast without its try ... catch: the exception reaches the caller
broadcastUnguarded(ev, status, o) ==
  [events |-> IF o = "sent" THEN Broadcast(ev, status) ELSE ev,
   raised |-> o # "sent", logged |-> FALSE]

\* broadcast(channel, payload): try { for (const w of wins) w.webContents.send(...) }
\* catch (err) { logger.error('broadcast failed: %s', err.message) }
broadcast(ev, status, o) ==
  [events |-> IF o = "sent" THEN Broadcast(ev, status) ELSE ev,
   raised |-> FALSE, logged |-> o # "sent"]

\* the record of the broadcast of a step
Emitted(handler, b, o) ==
  [op |-> "broadcast", handler |-> handler, outcome |-> o, raised |-> b.raised,
   logged |-> b.logged]

\* catch (err) of runTask left by an exception of await task.onError?.(err), or of an
\* onSuccess whose own catch threw: task.attempts + 1 is done, the timer is never set,
\* and the finally goes on to the pacing sleep
RunAborted(r, k) == [r EXCEPT !.attempts = @ + 1, !.run = [@ EXCEPT ![k] = "pacing"]]

EmitOnly == UNCHANGED <<concurrency, now, ret, baseDelayMs, jitterMs, delay, creators, timers,
                        browser, shutdown,
              proxy, scraper, callers, progress>>

\* scraper.scrapeProfile resolves for a simple task: onSuccess with its broadcast of
\* 'success', or of 'error' from its catch
ResolvesEmitting(t, k, o) ==
  /\ task[t].kind = "simple" /\ task[t].run[k] = "profile"
  /\ \E dbOk \in BOOLEAN :
       LET b == broadcast(events[t], IF dbOk THEN "success" ELSE "error", o) IN
       /\ events' = [events EXCEPT ![t] = b.events]
       /\ task' = [task EXCEPT ![t] = IF b.raised THEN RunAborted(@, k) ELSE RunSucceeded(@, k)]
       /\ last' = Emitted("onSuccess", b, o)
  /\ active' = active - SlotsReleasedAfter("profile")
  /\ UNCHANGED <<sessions, videos, video_metrics>>
  /\ NoDrain /\ EmitOnly

\* scraper.scrapeProfile rejects for a simple task: runTask's catch with onError's
\* broadcast of 'error'
RejectsEmitting(t, k, o) ==
  /\ task[t].kind = "simple" /\ task[t].run[k] = "profile"
  /\ LET b == broadcast(events[t], "error", o) IN
       /\ events' = [events EXCEPT ![t] = b.events]
       /\ task' = [task EXCEPT ![t] = IF b.raised THEN RunAborted(@, k) ELSE RunFailed(@, k)]
       /\ last' = Emitted("onError", b, o)
  /\ active' = active - SlotsReleasedAfter("profile")
  /\ UNCHANGED <<sessions, videos, video_metrics>>
  /\ NoDrain /\ EmitOnly

JobEmitOnly == UNCHANGED <<queue, active, task, events, arrival, admitted>> /\ EmitOnly

\* the composite run as storage sees it, from its start: broadcast 'running', then
\* beginScrapeSession
JobBeginsEmitting(sid, o) ==
  /\ sessions[sid].status = "none"
  /\ Cardinality(InFlight) < concurrency
  /\ LET b == broadcast(events[sid], "running", o) IN
       /\ sessions' = IF b.raised THEN sessions
                      ELSE BeginScrapeSession(sessions, sid, now).sessions
       /\ last' = Emitted("run", b, o)
  /\ UNCHANGED <<videos, video_metrics>>
  /\ JobEmitOnly

\* a fetch of the composite run rejects: failScrapeSession, then broadcast 'error'
JobFailsEmitting(sid, o) ==
  /\ EndsNext(sid)
  /\ sessions' = FailScrapeSession(sessions, sid, Message, now).sessions
  /\ last' = Emitted("catch", broadcast(events[sid], "error", o), o)
  /\ UNCHANGED <<videos, video_metrics>>
  /\ JobEmitOnly

\* scraper.scrapeVideos resolves with videosArr and storage takes every statement: the
\* transaction with its broadcast of 'video' after each post, finishScrapeSession,
\* touchScraped, broadcast 'success'.  A broadcast that threw would abort the
\* transaction at the first post, or fail the completed session from the catch.
JobIngestsEmitting(sid, videosArr, o) ==
  /\ EndsNext(sid)
  /\ Len(video_metrics) + Len(videosArr) <= MaxSamples
  /\ LET b == broadcast(events[sid], IF videosArr = <<>> THEN "success" ELSE "video", o) IN
     \E e \in transaction(videos, video_metrics, videosArr, sid, 0, now) :
       LET aborted == b.raised /\ videosArr # <<>>
           done == FinishScrapeSession(sessions, sid, e.videos_scraped, now).sessions
       IN /\ videos' = IF aborted THEN Rollback(videos, e.videos) ELSE e.videos
          /\ video_metrics' = IF aborted THEN Rollback(video_metrics, e.video_metrics)
                              ELSE e.video_metrics
          /\ sessions' = IF aborted THEN FailScrapeSession(sessions, sid, Message, now).sessions
                         ELSE IF b.raised THEN FailScrapeSession(done, sid, Message, now).sessions
                         ELSE done
          /\ last' = Emitted("ingest", b, o)
  /\ JobEmitOnly

\* the batches a job fetches here: no post, or one and the same post with the same counts
Single == {<<>>, <<RawPost("c1", Steady)>>}

\* one task of scrape:enqueue is submitted
NoTaskYet == \A u \in Tasks : task[u].kind = "none"

EmitNext ==
  \/ \E t \in Tasks : NoTaskYet /\ add(t, "simple")
  \/ \E t \in Tasks : RetryTimer(t)
  \/ \E t \in Tasks, k \in RunIds : PacingOver(t, k)
  \/ \E t \in Tasks, k \in RunIds, o \in Outcomes : ResolvesEmitting(t, k, o)
  \/ \E t \in Tasks, k \in RunIds, o \in Outcomes : RejectsEmitting(t, k, o)
  \/ \E sid \in Tasks, o \in Outcomes : JobBeginsEmitting(sid, o)
  \/ \E sid \in Tasks, o \in Outcomes : JobFailsEmitting(sid, o)
  \/ \E sid \in Tasks, videosArr \in Single, o \in Outcomes : JobIngestsEmitting(sid, videosArr, o)

EmitSpec == IngestInit /\ [][EmitNext]_vars

\* ------------------------------------------------------------- ProxyManager
\* the proxies of PROXIES or of the list given to the constructor
MaxProxies == 3
MaxGets == 6
ProxyUrls == {"p1", "p2", "p3"}

RECURSIVE Lists(_)
Lists(n) ==
  IF n = 0 THEN {<<>>}
  ELSE LET shorter == Lists(n - 1) IN
       shorter \cup {Append(l, u) : l \in {x \in shorter : Len(x) = n - 1}, u \in ProxyUrls}

\* getNext without this.index++
getNextStuck(pm) ==
  IF Len(pm.proxies) = 0 THEN [returned |-> Null, index |-> pm.index]
  ELSE [returned |-> pm.proxies[(pm.index % Len(pm.proxies)) + 1], index |-> pm.index]

\* getNext(): if (!this.proxies.length) return null;
\* const p = this.proxies[this.index % this.proxies.length]; this.index++; return p.
\* JavaScript arrays count from 0, sequences from 1.
getNext(pm) ==
  IF Len(pm.proxies) = 0 THEN [returned |-> Null, index |-> pm.index]
  ELSE [returned |-> pm.proxies[(pm.index % Len(pm.proxies)) + 1], index |-> pm.index + 1]

ProxyIdle ==
  UNCHANGED <<concurrency, queue, active, task, events, sessions, arrival, admitted, now, ret,
              baseDelayMs, jitterMs, delay, videos, video_metrics, last, creators, timers,
              browser, shutdown, scraper, callers, progress>>

\* one more call of getNext; log keeps what the calls returned, in their order
CallGetNext ==
  /\ Len(proxy.log) < MaxGets
  /\ LET g == getNext(proxy) IN
     proxy' = [proxy EXCEPT !.index = g.index, !.log = Append(@, g.returned)]
  /\ ProxyIdle

\* the lists a manager may be given
ProxyLists == Lists(MaxProxies)

\* the lists PROXIES may hold: unset, or two proxies
EnvLists == {<<>>, <<"p1", "p2">>}

\* constructor(list = null): this.proxies = Array.isArray(list) && list.length ? list :
\* this.loadFromEnv(); this.index = 0.  env is PROXIES split at the commas, trimmed,
\* without its empty entries.
ProxyManager(list, env) ==
  [proxies |-> IF Len(list) > 0 THEN list ELSE env, index |-> 0, log |-> <<>>]

New(list, env) ==
  /\ proxy' = ProxyManager(list, env)
  /\ ProxyIdle

ProxyNext ==
  \/ \E list \in ProxyLists, env \in EnvLists : New(list, env)
  \/ CallGetNext

ProxySpec == IngestInit /\ [][ProxyNext]_vars

\* ------------------------------------------------- a task whose onSuccess throws
\* The queue takes any task: q.add({ username, onSuccess, onError }).  Here the
\* unit-of-work resolves and the onSuccess given with the task rejects, as a callback
\* without a try ... catch of its own does when storage throws.

\* scraper.scrapeProfile resolves and await task.onSuccess?.(data) throws inside the try
\* of runTask: the catch runs as for a failed fetch, with task.attempts + 1, onError
\* (broadcast 'error') and the retry timer
OnSuccessThrows(t, k) ==
  /\ Rejects(t, k)
  /\ last' = [op |-> "onSuccess", task |-> t, raised |-> TRUE]
  /\ UNCHANGED <<concurrency, now, ret, baseDelayMs, jitterMs, delay, videos, video_metrics,
                 creators, timers, browser, shutdown, proxy, scraper, callers, progress>>

CallbackNext ==
  \/ \E t \in Tasks : add(t, "simple")
  \/ \E t \in Tasks : RetryTimer(t)
  \/ \E t \in Tasks, k \in RunIds : PacingOver(t, k)
  \/ \E t \in Tasks, k \in RunIds : SimpleResolves(t, k)
  \/ \E t \in Tasks, k \in RunIds : SimpleRejects(t, k)
  \/ \E t \in Tasks, k \in RunIds : OnSuccessThrows(t, k)

CallbackSpec == Init /\ [][CallbackNext]_vars

\* ------------------------------------------------------- the shared scraper
\* this.scraper of the queue with its callers: the fetches of the running tasks
\* (runTask -> scraper.scrapeProfile), the handler of system:health (init, then close)
\* and shutdown() (queue.close -> scraper.close).  A caller is "idle", "launching"
\* while its init() awaits puppeteer.launch, "closing" while its close() awaits
\* browser.close(); a fetch with a page is at "page" while the page's browser is the
\* open browser of this.browser, at "stray" once this.browser refers to another browser
\* or to none, and at "broken" once the page's browser was told to close.
MaxLaunches == 3

Fetches == Callers \ {Health}

Strayed(cs) == [c \in Callers |-> IF cs[c] = "page" THEN "stray" ELSE cs[c]]
Broken(cs) == [c \in Callers |-> IF cs[c] = "page" THEN "broken" ELSE cs[c]]

\* init(): if (this.browser) return; otherwise puppeteer.launch is called and awaited
scraper_init(b) == [launch |-> b = "null"]

\* close() without its if (this.browser): this.browser.close() on null throws a TypeError
scraper_closeUnguarded(b) == [called |-> b # "null", raised |-> b = "null"]

\* close(): if (this.browser) { await this.browser.close(); this.browser = null; }
scraper_close(b) == [called |-> b # "null", raised |-> FALSE]

ScraperOnly ==
  UNCHANGED <<concurrency, queue, active, task, events, sessions, arrival, admitted, now, ret,
              baseDelayMs, jitterMs, delay, videos, video_metrics, last, creators, timers,
              proxy, progress>>

CanLaunch == scraper.launched + scraper.launching < MaxLaunches

\* drain() starts runTask for a task, which calls scraper.scrapeProfile up to its first
\* await that waits: init() starts a launch when this.browser is null; with a browser it
\* returns and the fetch opens its page, which fails on a browser that is closing.
FetchStarts(c) ==
  /\ shutdown = "no" /\ callers[c] = "idle"
  /\ Cardinality({d \in Fetches : callers[d] # "idle"}) < concurrency
  /\ IF scraper_init(browser).launch
     THEN /\ CanLaunch
          /\ callers' = [callers EXCEPT ![c] = "launching"]
          /\ scraper' = [scraper EXCEPT !.launching = @ + 1]
     ELSE /\ callers' = [callers EXCEPT ![c] = IF browser = "open" THEN "page" ELSE "idle"]
          /\ UNCHANGED scraper
  /\ UNCHANGED <<browser, shutdown>>
  /\ ScraperOnly

\* this.browser = await puppeteer.launch(...) of caller c resolves: the assignment, with
\* whatever this.browser was, and the caller goes on: a fetch opens its page, the
\* health handler calls close() on the browser it has just stored
LaunchResolves(c) ==
  /\ Up /\ callers[c] = "launching"
  /\ LET replaced == IF browser = "open" THEN Strayed(callers) ELSE callers
         cl == scraper_close("open")
     IN /\ browser' = IF c = Health /\ cl.called THEN "closing" ELSE "open"
        /\ callers' = [replaced EXCEPT ![c] = IF c = Health THEN "closing" ELSE "page"]
        /\ scraper' = [scraper EXCEPT !.launching = @ - 1,
                                      !.launched = @ + 1,
                                      !.unreferenced = IF browser = "open" THEN @ + 1 ELSE @,
                                      !.closes = 0,
                                      !.recreated = @ \/ scraper.closes > 0]
  /\ UNCHANGED shutdown
  /\ ScraperOnly

\* the fetch of caller c is over, with its data or with an error: page.close()
FetchEnds(c) ==
  /\ Up /\ callers[c] \in {"page", "stray", "broken"}
  /\ callers' = [callers EXCEPT ![c] = "idle"]
  /\ UNCHANGED <<browser, scraper, shutdown>>
  /\ ScraperOnly

\* system:health: await q.scraper.init(); health.scraper = true; await q.scraper.close().
\* With a browser init() returns at once and close() tells that browser to close.
HealthStarts ==
  /\ shutdown = "no" /\ callers[Health] = "idle"
  /\ IF scraper_init(browser).launch
     THEN /\ CanLaunch
          /\ callers' = [callers EXCEPT ![Health] = "launching"]
          /\ scraper' = [scraper EXCEPT !.launching = @ + 1]
          /\ UNCHANGED browser
     ELSE /\ callers' = [Broken(callers) EXCEPT ![Health] = "closing"]
          /\ browser' = "closing"
          /\ scraper' = [scraper EXCEPT !.raised = @ \/ scraper_close(browser).raised]
  /\ UNCHANGED shutdown
  /\ ScraperOnly

\* await this.browser.close() of the health handler resolves: this.browser = null,
\* whichever browser it refers to by now
CloseResolves ==
  /\ Up /\ callers[Health] = "closing"
  /\ browser' = "null"
  /\ callers' = [(IF browser = "open" THEN Strayed(callers) ELSE callers)
                   EXCEPT ![Health] = "idle"]
  /\ scraper' = [scraper EXCEPT !.closes = @ + 1,
                                !.unreferenced = IF browser = "open" THEN @ + 1 ELSE @]
  /\ UNCHANGED shutdown
  /\ ScraperOnly

\* SIGINT, SIGTERM or before-quit: shutdown() -> queue.close() -> scraper.close().  With
\* no browser close() returns without a call and app.exit follows.
QueueClose ==
  /\ shutdown = "no"
  /\ LET cl == scraper_close(browser) IN
     /\ scraper' = [scraper EXCEPT !.raised = @ \/ cl.raised,
                                   !.closes = IF cl.called THEN @ ELSE @ + 1]
     /\ IF cl.called
        THEN browser' = "closing" /\ shutdown' = "requested" /\ callers' = Broken(callers)
        ELSE browser' = browser /\ shutdown' = "exited" /\ UNCHANGED callers
  /\ ScraperOnly

\* browser.close() of shutdown() is over: app.exit(code)
Exit ==
  /\ shutdown = "requested"
  /\ shutdown' = "exited"
  /\ browser' = "null"
  /\ UNCHANGED <<scraper, callers, progress>>
  /\ ScraperOnly

ScraperNext ==
  \/ \E c \in Fetches : FetchStarts(c)
  \/ \E c \in Callers : LaunchResolves(c)
  \/ \E c \in Fetches : FetchEnds(c)
  \/ HealthStarts
  \/ CloseResolves
  \/ QueueClose
  \/ Exit

ScraperSpec == IngestInit /\ [][ScraperNext]_vars

\* ------------------------------------------- the run of scrape:profileAndVideos
\* run(scraper) of the composite job from one await to the next, as runTask calls it
\* for every attempt, with the payloads it broadcasts and the rows it writes.  The jobs
\* are followed without the pending queue: an attempt starts when a slot is free.

\* session_id = `${Date.now()}-${random}`: fresh for every submission, here the number
\* of the job
SessionId(t) == t

\* return { enqueued: true, session_id }: what the submission hands to its caller
Enqueued(t) == [enqueued |-> TRUE, session_id |-> SessionId(t)]

\* const username = value.username
Username(t) == IF t = 1 THEN "alice" ELSE "bob"

\* a payload without its session_id
PayloadWithoutSession(t, status, shortcode) ==
  [username |-> Username(t), status |-> status, session_id |-> 0, shortcode |-> shortcode]

\* broadcast('scrape:progress', { username, status, session_id, ... }); shortcode is
\* that of the post for 'video', null for the others
Payload(t, status, shortcode) ==
  [username |-> Username(t), status |-> status, session_id |-> SessionId(t),
   shortcode |-> shortcode]

\* a callback that awaited after every post: one post per turn of the event loop
BatchOfAwaiting(videosArr) == IF videosArr = <<>> THEN <<>> ELSE <<Head(videosArr)>>

\* db.transaction(() => { for (const v of videos) { ... } }): the callback is
\* synchronous, the posts it handles before anything else runs are all of them
BatchOf(videosArr) == videosArr

\* the 'video' payloads of the first n posts
VideoPayloads(t, posts, n) == [i \in 1..n |-> Payload(t, "video", posts[i].instagram_shortcode)]

SlotFree == Cardinality({<<u, k>> \in Tasks \X RunIds :
                           task[u].run[k] \in {"profile", "videos", "pacing"}}) < concurrency

RunOnly ==
  UNCHANGED <<concurrency, queue, active, events, arrival, admitted, ret, baseDelayMs, jitterMs,
              delay, last, timers, browser, shutdown, proxy, scraper, callers>>

\* an attempt starts, the first of a submitted job or a retry whose timer fires:
\* broadcast 'running', beginScrapeSession, and inside the try scraper.scrapeProfile,
\* which is awaited.  On a session_id that is stored beginScrapeSession throws.
RunStarts(t) ==
  /\ SlotFree
  /\ \/ task[t].kind = "none" /\ \A u \in Tasks : u < t => task[u].kind # "none"
     \/ task[t].timer
  /\ LET r == IF task[t].kind = "none" THEN NewTask("composite")
              ELSE [task[t] EXCEPT !.timer = FALSE]
     IN task' = [task EXCEPT ![t] = StartTask(r, sessions, SessionId(t))]
  /\ progress' = [progress EXCEPT ![t] = Append(@, Payload(t, "running", Null))]
  /\ sessions' = BeginScrapeSession(sessions, SessionId(t), now).sessions
  /\ UNCHANGED <<now, videos, video_metrics, creators>>
  /\ RunOnly

\* the pacing sleep of an attempt is over
RunSlept(t, k) ==
  /\ task[t].run[k] = "pacing"
  /\ task' = [task EXCEPT ![t].run[k] = "done"]
  /\ UNCHANGED <<sessions, progress, now, videos, video_metrics, creators>>
  /\ RunOnly

\* scraper.scrapeProfile resolves: the creator statements, then scraper.scrapeVideos
RunProfileResolves(t, k) ==
  /\ task[t].run[k] = "profile"
  /\ creators' = StoreProfile(creators, [username |-> Username(t), display_name |-> "a"], now)
  /\ task' = [task EXCEPT ![t].run[k] = "videos"]
  /\ UNCHANGED <<sessions, progress, now, videos, video_metrics>>
  /\ RunOnly

\* scraper.scrapeProfile or scraper.scrapeVideos rejects: the catch of the run
RunFetchRejects(t, k) ==
  /\ task[t].run[k] \in {"profile", "videos"}
  /\ sessions' = FailScrapeSession(sessions, SessionId(t), Message, now).sessions
  /\ progress' = [progress EXCEPT ![t] = Append(@, Payload(t, "error", Null))]
  /\ task' = [task EXCEPT ![t] = RunFailed(@, k)]
  /\ UNCHANGED <<now, videos, video_metrics, creators>>
  /\ RunOnly

\* scraper.scrapeVideos resolves with videosArr: the transaction with its broadcast of
\* 'video' after every post it has stored, finishScrapeSession, touchScraped, broadcast
\* 'success'; or, from the statement that throws, the catch.  fault numbers that
\* statement as in IngestFrom; 2 * Len(videosArr) + 1 is db.touchScraped.
RunIngests(t, k, videosArr, fault) ==
  /\ task[t].run[k] = "videos"
  /\ Len(video_metrics) + Len(videosArr) <= MaxSamples
  /\ LET posts == BatchOf(videosArr) IN
     \E e \in transaction(videos, video_metrics, posts, SessionId(t), fault, now) :
       LET whole == Len(posts) = Len(videosArr)
           touchThrows == fault = 2 * Len(videosArr) + 1
           failed == e.thrown \/ touchThrows
           done == FinishScrapeSession(sessions, SessionId(t), e.videos_scraped, now).sessions
           seen == VideoPayloads(t, posts, e.videos_scraped)
           id == getCreatorByUsername(creators, Username(t))
       IN /\ videos' = e.videos
          /\ video_metrics' = e.video_metrics
          /\ IF ~whole /\ ~e.thrown
             THEN /\ progress' = [progress EXCEPT ![t] = @ \o seen]
                  /\ UNCHANGED <<task, sessions, creators>>
             ELSE /\ progress' =
                       [progress EXCEPT ![t] =
                          @ \o seen \o <<Payload(t, IF failed THEN "error" ELSE "success", Null)>>]
                  /\ sessions' =
                       IF e.thrown
                       THEN FailScrapeSession(sessions, SessionId(t), Message, now).sessions
                       ELSE IF touchThrows
                       THEN FailScrapeSession(done, SessionId(t), Message, now).sessions
                       ELSE done
                  /\ creators' = IF failed \/ id = 0 THEN creators
                                 ELSE touchScraped(creators, id, now)
                  /\ task' = [task EXCEPT ![t] = IF failed THEN RunFailed(@, k)
                                                 ELSE RunSucceeded(@, k)]
  /\ UNCHANGED now
  /\ RunOnly

\* the arrays scraper.scrapeVideos resolves with here: no post, one post, two posts
Fetched == {<<>>, <<RawPost("c1", Steady)>>, <<RawPost("c1", Steady), RawPost("c2", Steady)>>}

RunNext ==
  \/ \E t \in Tasks : RunStarts(t)
  \/ \E t \in Tasks, k \in RunIds : RunSlept(t, k)
  \/ \E t \in Tasks, k \in RunIds : RunProfileResolves(t, k)
  \/ \E t \in Tasks, k \in RunIds : RunFetchRejects(t, k)
  \/ \E t \in Tasks, k \in RunIds, videosArr \in Fetched :
       \E fault \in 0..(2 * Len(videosArr) + 1) : RunIngests(t, k, videosArr, fault)

RunSpec == IngestInit /\ [][RunNext]_vars

\* ================================================================ claims
Pending == SeqToSet(queue)
SlotsHeld ==
  Cardinality({p \in Tasks \X RunIds : task[p[1]].run[p[2]] \in {"profile", "videos", "pacing"}})

\* C1: in every reachable state 0 <= active <= concurrency, and every admission that
\* drain() made found active < concurrency.
C1_ActiveWithinConcurrency ==
  /\ 0 <= active
  /\ active <= concurrency
  /\ \A i \in DOMAIN admitted : admitted[i].active < concurrency

\* a drain() admitted a task into the last free slot and left another one pending
C1_Witness ==
  /\ admitted # <<>>
  /\ active = concurrency
  /\ queue # <<>>

\* C2: every admitted task has the highest priority among the tasks pending when it
\* was admitted, and among those of its own priority it entered the pending set first.
C2_AdmitsHighestPriorityFifo ==
  \A i \in DOMAIN admitted :
    LET e == admitted[i] IN
    \A u \in SeqToSet(e.pending) :
      /\ Priority(task, u) <= Priority(task, e.task)
      /\ Priority(task, u) = Priority(task, e.task)
           => IndexOf(e.arrival, e.task) <= IndexOf(e.arrival, u)

\* C3: a task that never succeeded is executed at most maxRetries times; once its
\* attempts reach maxRetries it is permanently failed, not pending and without a retry
\* timer; and a permanently failed task was executed exactly maxRetries times.
C3_RetryCeiling ==
  \A t \in Tasks :
    task[t].outcome # "succeeded" =>
      /\ Executions(task[t]) <= MaxRetries
      /\ task[t].attempts >= MaxRetries =>
           task[t].outcome = "failed" /\ ~task[t].timer /\ t \notin Pending
      /\ task[t].outcome = "failed" =>
           Executions(task[t]) = MaxRetries /\ task[t].attempts = MaxRetries

\* a simple and a composite task have each failed maxRetries times and are through
C3_Witness ==
  /\ \E t \in Tasks : task[t].kind = "simple" /\ task[t].outcome = "failed"
                        /\ \A k \in 1..MaxRetries : task[t].run[k] = "done"
  /\ \E t \in Tasks : task[t].kind = "composite" /\ task[t].outcome = "failed"
                        /\ \A k \in 1..MaxRetries : task[t].run[k] = "done"

\* C4: a simple task that never succeeded has had one 'error' event (and one onError
\* call) when it has permanently failed, and none before.
C4_ErrorOnlyAtTerminalFailure ==
  \A t \in Tasks :
    task[t].kind = "simple" /\ task[t].outcome # "succeeded" =>
      events[t].error = (IF task[t].outcome = "failed" THEN 1 ELSE 0)

\* C5: once the scheduler has finished with a task (succeeded, or dropped after the
\* last retry), exactly one 'success' or 'error' event was broadcast for it and that
\* event is the last one broadcast for it.
C5_OneTerminalEventLast ==
  \A t \in Tasks :
    task[t].outcome \in {"succeeded", "failed"} =>
      /\ events[t].success + events[t].error = 1
      /\ events[t].last \in {"success", "error"}

\* C6: under fairness every submitted task is eventually succeeded or permanently
\* failed, and the queue ends up with nothing pending and no slot taken: from some
\* point on, for good, no task is live, the pending set is empty and active = 0.
C6_EveryTaskSettles ==
  <>[](queue = <<>> /\ active = 0 /\ \A t \in Tasks : task[t].outcome # "live")

\* everything submitted, one task through after a retry, one permanently failed, the
\* queue empty and idle
C6_Witness ==
  /\ queue = <<>> /\ active = 0
  /\ \A t \in Tasks : task[t].outcome \in {"succeeded", "failed"}
  /\ \E t \in Tasks : task[t].outcome = "succeeded" /\ task[t].attempts >= 1
  /\ \E t \in Tasks : task[t].outcome = "failed"

\* C7: an invocation keeps its slot while it runs and through its pacing sleep: active
\* counts the running and the pacing invocations, so those never exceed concurrency.
C7_SlotHeldThroughPacing ==
  /\ active = SlotsHeld
  /\ SlotsHeld <= concurrency

\* every slot is taken, one of them by an invocation in its pacing sleep after a
\* success, one after a failure to be retried or a terminal failure, while a task waits
C7_Witness ==
  /\ active = concurrency
  /\ queue # <<>>
  /\ \E t \in Tasks, k \in RunIds : task[t].run[k] = "pacing" /\ task[t].outcome = "succeeded"
  /\ \E t \in Tasks, k \in RunIds : task[t].run[k] = "pacing" /\ task[t].outcome # "succeeded"

BackoffFloor == baseDelayMs * Pow2(delay.attempt - 1)

\* C8 as stated: for every attempt >= 1, base_delay >= 0 and jitter_max >= 0,
\* base_delay * 2^(a-1) <= backoffDelay(a) < base_delay * 2^(a-1) + jitter_max.
C8_BackoffWithinJitter ==
  delay.attempt >= 1 =>
    /\ delay.value >= BackoffFloor
    /\ delay.value < BackoffFloor + jitterMs

\* C8 amended: the upper bound is strict when jitter_max > 0; with jitter_max = 0 the
\* delay is exactly base_delay * 2^(a-1).
C8_BackoffBounds ==
  delay.attempt >= 1 =>
    /\ delay.value >= BackoffFloor
    /\ jitterMs > 0 => delay.value < BackoffFloor + jitterMs
    /\ jitterMs = 0 => delay.value = BackoffFloor

\* a third attempt whose delay carries jitter above a positive doubled base
C8_Witness ==
  /\ delay.attempt = 3
  /\ baseDelayMs > 0
  /\ delay.value > BackoffFloor

\* C9: no complete or fail statement updates a session that is already completed or
\* failed: a session takes one terminal state and keeps it, with its count and errors.
C9_SessionTerminalOnce == \A t \in Tasks : ~sessions[t].revisited

\* C10: a complete on a session that is not running (completed, failed or not
\* stored) throws and leaves the stored sessions as they were.
C10_CompleteRejectedUnlessRunning ==
  [][(ret'.op = "complete" /\ ret'.calls = ret.calls + 1
        /\ sessions[ret'.sid].status # "running")
       => (ret'.raised /\ sessions' = sessions)]_vars

\* C11: a fail on a session that is already completed or failed throws and leaves
\* the stored status, completed_at and errors as they were.
C11_FailRejectedWhenTerminal ==
  [][(ret'.op = "fail" /\ ret'.calls = ret.calls + 1
        /\ sessions[ret'.sid].status \in Terminal)
       => (ret'.raised /\ sessions' = sessions)]_vars

\* C12: a begin with a session_id that is not stored does not throw and stores a row
\* with status running, no count, no errors and no completed_at, leaving the other
\* rows alone; a begin with a stored session_id throws and changes no row.
C12_BeginCreatesOrRejects ==
  [][(ret'.op = "begin" /\ ret'.calls = ret.calls + 1) =>
       IF sessions[ret'.sid].status = "none"
       THEN /\ ~ret'.raised
            /\ sessions'[ret'.sid] = [status |-> "running", videos_scraped |-> 0,
                                      errors |-> "null", started_at |-> now,
                                      completed_at |-> -1, revisited |-> FALSE]
            /\ \A u \in Tasks : u # ret'.sid => sessions'[u] = sessions[u]
       ELSE ret'.raised /\ sessions' = sessions]_vars

\* a begin has just thrown on the session_id of a session that was begun and then
\* completed or failed; the row is still in its terminal state
C12_Witness ==
  /\ ret.op = "begin" /\ ret.raised
  /\ sessions[ret.sid].status \in Terminal
  /\ sessions[ret.sid].started_at >= 0

\* the step ends the run of the composite job last'.sid, after its fetch of
\* last'.fetched posts
JobEnds == last'.op = "ingest" /\ sessions[last'.sid].status = "running"

\* C13: the ingestion of a batch is all or nothing: when an upsert or a metric insert
\* of the batch has thrown, videos and video_metrics are as they were before the batch;
\* otherwise every post of the batch has its sample appended, tagged with the job's
\* session and pointing to a stored video row written by the batch.
C13_IngestionAllOrNothing ==
  [][JobEnds =>
       IF last'.thrown
       THEN videos' = videos /\ video_metrics' = video_metrics
       ELSE /\ Len(video_metrics') = Len(video_metrics) + last'.fetched
            /\ \A i \in DOMAIN video_metrics : video_metrics'[i] = video_metrics[i]
            /\ \A i \in DOMAIN video_metrics' \ DOMAIN video_metrics :
                 /\ video_metrics'[i].scrape_session_id = last'.sid
                 /\ \E j \in DOMAIN videos' : /\ videos'[j].id = video_metrics'[i].video_id
                                              /\ videos'[j].updated_at = now]_vars

\* a batch of two posts was aborted by the failure of its last metric insert, after an
\* upsert, a metric insert and another upsert had gone through, over stored rows
C13_Witness ==
  /\ last.op = "ingest" /\ last.thrown
  /\ last.fetched = 2 /\ last.fault = 4
  /\ videos # <<>> /\ video_metrics # <<>>
  /\ sessions[last.sid].status = "failed"

\* C14: when the transaction of a composite job throws, the session is failed with
\* the error stored, and the task is permanently failed: no retry timer is set and the
\* task is not pending.
C14_TransactionFailureIsTerminal ==
  [][\A t \in Tasks, k \in RunIds :
       TransactionFails(t, k) =>
         /\ sessions'[t].status = "failed"
         /\ sessions'[t].errors = Message
         /\ task'[t].outcome = "failed"
         /\ ~task'[t].timer
         /\ t \notin SeqToSet(queue')]_vars

\* the samples that were appended when their video had no sample
FirstSamples ==
  {i \in DOMAIN video_metrics :
     \A j \in DOMAIN video_metrics : j < i => video_metrics[j].video_id # video_metrics[i].video_id}

\* the sample of the same video appended last before sample i
Previous(i) ==
  CHOOSE j \in DOMAIN video_metrics :
    /\ j < i /\ video_metrics[j].video_id = video_metrics[i].video_id
    /\ \A h \in DOMAIN video_metrics :
         (h < i /\ video_metrics[h].video_id = video_metrics[i].video_id) => h <= j

\* C15: a sample appended for a post without a prior sample has likes_delta = 0 and
\* views_delta = 0, whatever its counts.
C15_FirstSampleDeltasZero ==
  \A i \in FirstSamples :
    video_metrics[i].likes_delta = 0 /\ video_metrics[i].views_delta = 0

\* C16: a sample appended for a post with a prior sample has likes_delta and
\* views_delta equal to its counts minus the counts of the sample of that post that
\* was appended last before it.
C16_DeltaAgainstMostRecent ==
  \A i \in DOMAIN video_metrics \ FirstSamples :
    /\ video_metrics[i].likes_delta =
         video_metrics[i].likes_count - video_metrics[Previous(i)].likes_count
    /\ video_metrics[i].views_delta =
         video_metrics[i].views_count - video_metrics[Previous(i)].views_count

\* C17: every sample appended for a post without a prior sample has likes_delta equal
\* to its own likes_count.
C17_FirstSampleDeltaIsLikes ==
  \A i \in FirstSamples : video_metrics[i].likes_delta = video_metrics[i].likes_count

\* one job has ingested two posts without prior samples, with different likes counts
C17_Witness ==
  \E i \in FirstSamples, j \in FirstSamples :
    /\ video_metrics[i].scrape_session_id = video_metrics[j].scrape_session_id
    /\ video_metrics[i].likes_count # video_metrics[j].likes_count
    /\ sessions[video_metrics[i].scrape_session_id].status = "completed"

\* the number of samples tagged with the session
Tagged(ms, sid) == Cardinality({i \in DOMAIN ms : ms[i].scrape_session_id = sid})

\* C18: a completed session's videos_scraped is the number of samples tagged with its
\* session_id, and when a job's run ends with its session completed, it is the number
\* of posts the fetcher returned.
C18_CountIsFetchedAndTagged ==
  [][/\ \A sid \in Tasks :
          sessions'[sid].status = "completed" =>
            sessions'[sid].videos_scraped = Tagged(video_metrics', sid)
     /\ (JobEnds /\ sessions'[last'.sid].status = "completed") =>
          sessions'[last'.sid].videos_scraped = last'.fetched]_vars

\* a job whose fetcher returned two posts has ended with its session completed, after
\* another job had completed
C18_Witness ==
  /\ last.op = "ingest" /\ last.fetched = 2
  /\ sessions[last.sid].status = "completed"
  /\ sessions[last.sid].videos_scraped = 2
  /\ \E sid \in Tasks : sid # last.sid /\ sessions[sid].status = "completed"
                          /\ sessions[sid].videos_scraped = 1

\* the step is a call of db.upsertVideo with argument last'.v
UpsertCalled == last'.op = "upsertVideo" /\ ret'.calls = ret.calls + 1

RowsOf(vs, post_id) == {i \in DOMAIN vs : vs[i].instagram_post_id = post_id}

\* C19 as stated: videos never holds two rows with one instagram_post_id, and a call
\* of upsertVideo with the argument of the call before it leaves one row for the post
\* and every row with the values it had.
C19_UpsertIdempotent ==
  [][/\ \A id \in PostIds : Cardinality(RowsOf(videos', id)) <= 1
     /\ (UpsertCalled /\ last'.repeat) =>
          /\ Cardinality(RowsOf(videos', last'.v.instagram_post_id)) = 1
          /\ videos' = videos]_vars

\* C19 amended: ... and every row with the values it had in every column other than
\* updated_at.
C19_UpsertIdempotentButUpdatedAt ==
  [][/\ \A id \in PostIds : Cardinality(RowsOf(videos', id)) <= 1
     /\ (UpsertCalled /\ last'.repeat) =>
          /\ Cardinality(RowsOf(videos', last'.v.instagram_post_id)) = 1
          /\ DOMAIN videos' = DOMAIN videos
          /\ \A i \in DOMAIN videos :
               [videos'[i] EXCEPT !.updated_at = videos[i].updated_at] = videos[i]]_vars

\* the last two calls of upsertVideo had the same argument, the second one in a later
\* second than the first, and another post is stored as well
C19_Witness ==
  /\ last.op = "upsertVideo" /\ last.repeat
  /\ now > 0
  /\ Len(videos) = 2
  /\ \E i \in RowsOf(videos, last.v.instagram_post_id) : videos[i].updated_at = now

\* C20: a call of upsertVideo for a stored post leaves posted_date, video_url and
\* thumbnail_url as stored where the incoming value is null and sets them to the
\* incoming value where it is not; the rows of other posts keep theirs; so no call
\* turns a stored non-null value of these columns into null.
C20_CoalescePreserves ==
  [][UpsertCalled =>
       \A i \in DOMAIN videos :
         /\ i \in DOMAIN videos'
         /\ videos'[i].instagram_post_id = videos[i].instagram_post_id
         /\ IF videos[i].instagram_post_id = last'.v.instagram_post_id
            THEN /\ videos'[i].posted_date =
                      (IF last'.v.posted_date = Null THEN videos[i].posted_date
                                                     ELSE last'.v.posted_date)
                 /\ videos'[i].video_url =
                      (IF last'.v.video_url = Null THEN videos[i].video_url
                                                   ELSE last'.v.video_url)
                 /\ videos'[i].thumbnail_url =
                      (IF last'.v.thumbnail_url = Null THEN videos[i].thumbnail_url
                                                       ELSE last'.v.thumbnail_url)
            ELSE /\ videos'[i].posted_date = videos[i].posted_date
                 /\ videos'[i].video_url = videos[i].video_url
                 /\ videos'[i].thumbnail_url = videos[i].thumbnail_url
         /\ videos[i].posted_date # Null => videos'[i].posted_date # Null
         /\ videos[i].video_url # Null => videos'[i].video_url # Null
         /\ videos[i].thumbnail_url # Null => videos'[i].thumbnail_url # Null]_vars

\* the last call of upsertVideo was for a stored post and brought a posted_date, now
\* stored, and no video_url, where the row still has one
C20_Witness ==
  /\ last.op = "upsertVideo" /\ last.stored
  /\ last.v.video_url = Null /\ last.v.posted_date # Null
  /\ \E i \in RowsOf(videos, last.v.instagram_post_id) :
       /\ videos[i].video_url # Null
       /\ videos[i].posted_date = last.v.posted_date
       /\ videos[i].thumbnail_url # Null

\* the step has called db.upsertCreatorMeta with argument last'.meta
CreatorMetaUpserted ==
  /\ last'.op \in {"upsertCreatorMeta", "onSuccess", "job"}
  /\ ret'.calls = ret.calls + 1

\* the rows of the username, however it is spelled
CreatorRows(cs, username) ==
  {i \in DOMAIN cs : cs[i].username = username \/ {cs[i].username, username} = {"alice", "Alice"}}

\* C21: an upsert of creator metadata on a stored creator leaves display_name,
\* follower_count, following_count, posts_count, is_verified and is_private as stored
\* where the incoming value is null; so the null counts and flags of a composite job
\* erase nothing.
C21_NullKeepsStoredMeta ==
  [][(CreatorMetaUpserted /\ last'.stored) =>
       \A i \in CreatorRows(creators, last'.meta.username) :
         /\ last'.meta.display_name = Null => creators'[i].display_name = creators[i].display_name
         /\ last'.meta.follower_count < 0 => creators'[i].follower_count = creators[i].follower_count
         /\ last'.meta.following_count < 0 => creators'[i].following_count = creators[i].following_count
         /\ last'.meta.posts_count < 0 => creators'[i].posts_count = creators[i].posts_count
         /\ last'.meta.is_verified < 0 => creators'[i].is_verified = creators[i].is_verified
         /\ last'.meta.is_private < 0 => creators'[i].is_private = creators[i].is_private]_vars

\* C22: creators never holds two rows whose usernames are equal without regard to
\* case, and every step keeps every row, with its id and its username.
C22_OneRowPerUsername ==
  [][/\ \A i \in DOMAIN creators' : CreatorRows(creators', creators'[i].username) = {i}
     /\ \A i \in DOMAIN creators :
          /\ i \in DOMAIN creators'
          /\ creators'[i].id = creators[i].id
          /\ creators'[i].username = creators[i].username]_vars

\* two creators are stored, and the last step was a composite job storing its profile
\* under a username whose row was written with another spelling, while another job was
\* running
C22_Witness ==
  /\ Len(creators) = 2
  /\ last.op = "job" /\ last.stored
  /\ \E i \in CreatorRows(creators, last.meta.username) : creators[i].username # last.meta.username
  /\ \E sid \in Tasks : sid # last.sid /\ sessions[sid].status = "running"

\* C23: no step changes or removes a stored sample, and an ingestion that commits
\* appends one sample per distinct post of its batch, tagged with the job's session:
\* the samples it appends are of different videos.
C23_OneSamplePerPostAppendOnly ==
  [][/\ \A i \in DOMAIN video_metrics :
          i \in DOMAIN video_metrics' /\ video_metrics'[i] = video_metrics[i]
     /\ (JobEnds /\ ~last'.thrown) =>
          \A i, j \in DOMAIN video_metrics' \ DOMAIN video_metrics :
            /\ video_metrics'[i].scrape_session_id = last'.sid
            /\ i # j => video_metrics'[i].video_id # video_metrics'[j].video_id]_vars

\* C24: when the session of a composite job that has stored its creator ends failed,
\* the scrape_failures of that creator is one more than it was.
C24_FailureCounted ==
  [][\A sid \in Tasks :
       (/\ sessions[sid].status = "running" /\ sessions'[sid].status = "failed"
        /\ last.op = "job" /\ last.sid = sid) =>
         \A i \in CreatorRows(creators, last.meta.username) :
           creators'[i].scrape_failures = creators[i].scrape_failures + 1]_vars

\* C25: the pending set is ordered by non-increasing priority, after a retry timer has
\* put its task back as after a submission, so that a retried task is ahead of every
\* pending task of lower priority.
C25_RetryKeepsPriorityOrder ==
  \A i, j \in DOMAIN queue : i < j => Priority(task, queue[i]) >= Priority(task, queue[j])

\* the tasks submitted so far were submitted one after another on an idle queue: no
\* invocation has come to the end of its attempt yet
Burst ==
  \A v \in Tasks : /\ task[v].attempts = 0
                   /\ \A k \in RunIds : task[v].run[k] \in {"none", "profile", "videos"}

\* C26: with concurrency = 1, of the tasks submitted one after another on an idle
\* queue none starts before a submitted task of higher priority.
C26_StartsInPriorityOrder ==
  (concurrency = 1 /\ Burst) =>
    \A t, u \in Tasks :
      (/\ task[t].kind # "none" /\ task[u].kind # "none"
       /\ Priority(task, u) > Priority(task, t)
       /\ Executions(task[u]) = 0) => Executions(task[t]) = 0

\* C27: a task with a retry timer is not pending and none of its invocations runs; the
\* timer puts it back only when base_delay * 2^(k-1) milliseconds at least have passed
\* since the failure that set it, k being the task's attempts after that failure.
C27_RetryAfterBackoff ==
  [][\A t \in Tasks :
       /\ task'[t].timer =>
            /\ t \notin SeqToSet(queue')
            /\ \A k \in RunIds : task'[t].run[k] \notin {"profile", "videos"}
       /\ (task[t].timer /\ ~task'[t].timer) =>
            timers[t].waited >= baseDelayMs * Pow2(task[t].attempts - 1)]_vars

\* a task runs for the third time: its second retry timer was set with a delay above
\* twice a positive base delay and has fired when that delay had passed
C27_Witness ==
  \E t \in Tasks :
    /\ task[t].attempts = 2 /\ ~task[t].timer
    /\ task[t].run[3] = "profile"
    /\ baseDelayMs > 0
    /\ timers[t].delay > 2 * baseDelayMs
    /\ timers[t].waited = timers[t].delay

\* C28: close() releases the browser only when no invocation holds a slot: the browser
\* is never closed while active > 0.
C28_BrowserReleasedWhenIdle ==
  [][(browser = "open" /\ browser' = "closing") => active = 0]_vars

\* C29: once close() has been called no drain() admits a task, whether it follows an
\* add(), a retry timer or the end of a pacing sleep.
C29_NoAdmissionAfterClose ==
  [][shutdown # "no" => admitted' = <<>>]_vars

\* C30: a broadcast that fails is logged and throws nothing; the step of the handler
\* leaves the pending set, active, the tasks with their attempts, the sessions, videos
\* and video_metrics as the same step with a broadcast that went out.
C30_BroadcastFailureSwallowed ==
  [][/\ \A t \in Tasks, k \in RunIds :
          ResolvesEmitting(t, k, "throws") =>
            /\ last'.logged /\ ~last'.raised
            /\ task' = [task EXCEPT ![t] = RunSucceeded(@, k)]
            /\ active' = active - SlotsReleasedAfter("profile")
            /\ UNCHANGED <<queue, sessions, videos, video_metrics>>
     /\ \A t \in Tasks, k \in RunIds :
          RejectsEmitting(t, k, "throws") =>
            /\ last'.logged /\ ~last'.raised
            /\ task' = [task EXCEPT ![t] = RunFailed(@, k)]
            /\ active' = active - SlotsReleasedAfter("profile")
            /\ UNCHANGED <<queue, sessions, videos, video_metrics>>
     /\ \A sid \in Tasks :
          JobBeginsEmitting(sid, "throws") =>
            /\ last'.logged /\ ~last'.raised
            /\ sessions' = BeginScrapeSession(sessions, sid, now).sessions
            /\ UNCHANGED <<queue, active, task, videos, video_metrics>>
     /\ \A sid \in Tasks :
          JobFailsEmitting(sid, "throws") =>
            /\ last'.logged /\ ~last'.raised
            /\ sessions' = FailScrapeSession(sessions, sid, Message, now).sessions
            /\ UNCHANGED <<queue, active, task, videos, video_metrics>>
     /\ \A sid \in Tasks, videosArr \in Single :
          JobIngestsEmitting(sid, videosArr, "throws") =>
            /\ last'.logged /\ ~last'.raised
            /\ \E e \in transaction(videos, video_metrics, videosArr, sid, 0, now) :
                 /\ videos' = e.videos
                 /\ video_metrics' = e.video_metrics
                 /\ sessions' = FinishScrapeSession(sessions, sid, e.videos_scraped, now).sessions
            /\ UNCHANGED <<queue, active, task>>]_vars

\* the 'video' broadcast of a job has just failed: its post and sample are stored and
\* its session is completed; the 'error' broadcast of a simple task's first failure had
\* failed too: no event went out, and the task has its retry timer or is back in the
\* pipeline
C30_Witness ==
  /\ last.op = "broadcast" /\ last.handler = "ingest" /\ last.outcome = "throws"
  /\ video_metrics # <<>>
  /\ \E sid \in Tasks : sessions[sid].status = "completed" /\ sessions[sid].videos_scraped = 1
  /\ \E t \in Tasks : /\ task[t].kind = "simple" /\ task[t].attempts = 1
                      /\ events[t].error = 0
                      /\ task[t].outcome = "live"

\* C34: getNext is round-robin.  With n proxies the k-th call (k = 0, 1, ...) returns
\* proxies[k mod n] and the index counts the calls; in every window of n consecutive
\* calls every entry of the list is returned exactly once.  With no proxy every call
\* returns null and the index stays where it was.
C34_RoundRobin ==
  LET n == Len(proxy.proxies)
      calls == Len(proxy.log)
  IN IF n = 0
     THEN proxy.index = 0 /\ \A j \in 1..calls : proxy.log[j] = Null
     ELSE /\ proxy.index = calls
          /\ \A j \in 1..calls : proxy.log[j] = proxy.proxies[((j - 1) % n) + 1]
          /\ \A w \in 1..(calls - n + 1) : \A i \in 1..n :
               Cardinality({j \in w..(w + n - 1) : ((j - 1) % n) + 1 = i
                                                  /\ proxy.log[j] = proxy.proxies[i]}) = 1

\* three different proxies, and getNext has gone round the list twice
C34_Witness ==
  /\ Len(proxy.proxies) = 3
  /\ Cardinality(SeqToSet(proxy.proxies)) = 3
  /\ Len(proxy.log) = 6
  /\ proxy.log[1] = proxy.log[4] /\ proxy.log[1] # proxy.log[2]

\* C36: a task never holds more than one slot: of its runTask invocations at most one
\* is between its admission and the end of its pacing sleep, so a retry is not admitted
\* while the attempt before it still sleeps.
C36_OneSlotPerTask ==
  \A t \in Tasks : Holding(task[t]) <= 1

\* C35: every attempt of a composite job starts its fetch, the retries as the first: an
\* invocation that drain() admits is awaiting scraper.scrapeProfile when the step is
\* over, and has not failed on what an earlier attempt left in scraping_sessions.
C35_RetryFetchesAgain ==
  [][\A i \in DOMAIN admitted' :
       LET t == admitted'[i].task IN
       task'[t].kind = "composite" => task'[t].run[Executions(task[t]) + 1] = "profile"]_vars

\* C39: a unit-of-work that returned is not run again and does not count as a failed
\* attempt, even when onSuccess throws on its result: the step leaves task.attempts as
\* it was, sets no retry timer, and the invocation goes on to its pacing sleep with the
\* task done.
C39_SuccessIsFinal ==
  [][\A t \in Tasks, k \in RunIds :
       OnSuccessThrows(t, k) =>
         /\ task'[t].attempts = task[t].attempts
         /\ ~task'[t].timer
         /\ task'[t].run[k] = "pacing"
         /\ task'[t].outcome = "succeeded"]_vars

\* C33: close() is idempotent.  No close() has thrown; when close() calls have returned
\* with no launch since, one of them or two in a row, this.browser is null; close() on
\* a scraper without a browser changes nothing of the scraper; and a fetch that starts
\* without a browser launches one, which init() stores when the launch resolves.
C33_CloseIdempotent ==
  /\ [](~scraper.raised /\ (scraper.closes > 0 => browser = "null"))
  /\ [][/\ (QueueClose /\ browser = "null") =>
              /\ browser' = "null"
              /\ scraper'.launching = scraper.launching
              /\ scraper'.unreferenced = scraper.unreferenced
              /\ callers' = callers
        /\ CloseResolves => browser' = "null"
        /\ \A c \in Fetches :
             (FetchStarts(c) /\ browser = "null") => callers'[c] = "launching"
        /\ \A c \in Fetches :
             LaunchResolves(c) => browser' = "open" /\ callers'[c] = "page"]_vars

\* the health check closed the browser, a fetch launched another one, the next health
\* check closed that one, and then shutdown() called close() once more: two close()
\* calls in a row have returned, the second on a scraper without a browser
C33_Witness ==
  /\ scraper.recreated
  /\ scraper.closes = 2
  /\ scraper.launched >= 2
  /\ browser = "null"
  /\ shutdown = "exited"

\* C37: concurrent init() calls launch one browser between them: at most one
\* puppeteer.launch is pending at any time, and no launched browser is left open with
\* no reference to it.
C37_OneBrowserLaunched ==
  scraper.launching <= 1 /\ scraper.unreferenced = 0

\* C38: while the process is not shutting down, no page of a running fetch is on a
\* browser that was told to close: system:health closes the browser only when no fetch
\* uses it.
C38_HealthSparesBrowserInUse ==
  shutdown = "no" => \A c \in Fetches : callers[c] # "broken"

\* the statuses of the payloads a job has broadcast, in their order
Statuses(t) == [i \in DOMAIN progress[t] |-> progress[t][i].status]

\* the post of shortcode s is stored with a sample of session sid
Persisted(s, sid) ==
  LET id == getVideoByPostId(videos, s) IN
  /\ id # 0
  /\ \E j \in DOMAIN video_metrics :
       video_metrics[j].video_id = id /\ video_metrics[j].scrape_session_id = sid

\* C31: a 'video' event is out only for a post that is stored with its sample: no job
\* has broadcast 'video' for a post whose upsert and sample a rollback took away.
C31_VideoEventMeansPersisted ==
  \A t \in Tasks : \A i \in DOMAIN progress[t] :
    progress[t][i].status = "video" => Persisted(progress[t][i].shortcode, SessionId(t))

\* C32: every payload a composite job broadcasts, whatever its status, carries the
\* session_id the submission returned, and while an attempt of the job awaits a fetch
\* the session of that id is stored and running.
C32_EventsCarrySession ==
  /\ \A t \in Tasks : \A i \in DOMAIN progress[t] :
       /\ progress[t][i].status \in {"running", "video", "success", "error"}
       /\ progress[t][i].session_id = Enqueued(t).session_id
  /\ \A t \in Tasks, k \in RunIds :
       task[t].run[k] \in {"profile", "videos"} =>
         sessions[Enqueued(t).session_id].status = "running"

\* one job has broadcast running, video, video, success; another one has broadcast
\* running and then error, and a retry of it has broadcast running again
C32_Witness ==
  /\ \E t \in Tasks : Statuses(t) = <<"running", "video", "video", "success">>
  /\ \E t \in Tasks : Len(progress[t]) >= 3 /\ progress[t][2].status = "error"
                      /\ progress[t][3].status = "running"

\* C40: a batch is ingested in one step.  No state shows a job in flight with samples
\* of its session stored; and the step that writes posts or samples belongs to one job:
\* it takes that job's session from running to its end, appends samples of that
\* session only, and leaves every other job's session, attempt and events, and every
\* creator but the job's own (touchScraped), as they were.
C40_IngestionNotInterleaved ==
  /\ [](\A t \in Tasks : sessions[SessionId(t)].status = "running"
                           => Tagged(video_metrics, SessionId(t)) = 0)
  /\ [][(videos' # videos \/ video_metrics' # video_metrics) =>
          \E t \in Tasks :
            /\ sessions[SessionId(t)].status = "running"
            /\ sessions'[SessionId(t)].status \in Terminal
            /\ \A u \in Tasks \ {t} :
                 /\ sessions'[SessionId(u)] = sessions[SessionId(u)]
                 /\ task'[u] = task[u]
                 /\ progress'[u] = progress[u]
            /\ Len(video_metrics') >= Len(video_metrics)
            /\ \A j \in DOMAIN video_metrics' :
                 IF j <= Len(video_metrics) THEN video_metrics'[j] = video_metrics[j]
                 ELSE video_metrics'[j].scrape_session_id = SessionId(t)
            /\ creators' \in {creators,
                              touchScraped(creators,
                                           getCreatorByUsername(creators, Username(t)), now)}]_vars

\* two jobs were in flight together; one has ingested its two posts and is completed
\* while the other still awaits its fetch
C40_Witness ==
  \E t \in Tasks, u \in Tasks :
    /\ t # u
    /\ sessions[SessionId(t)].status = "completed"
    /\ sessions[SessionId(t)].videos_scraped = 2
    /\ Tagged(video_metrics, SessionId(t)) = 2
    /\ \E k \in RunIds : task[u].run[k] = "videos"
    /\ sessions[SessionId(u)].status = "running"

====
